---- MODULE Spec2Model ----
(***************************************************************************)
(* A model of the vm-device crate: the bus registry (src/bus), the I/O     *)
(* manager that owns one PIO and one MMIO bus (src/device_manager.rs) and  *)
(* the KVM interrupt routing table (src/interrupt/kvm/mod.rs).             *)
(*                                                                         *)
(* Address widths are scaled: a PIO address is 0..PioMax (u16 in the       *)
(* code), an MMIO address 0..MmioMax (u64 in the code) and usize has the   *)
(* width of an MMIO offset (a 64-bit target).                              *)
(***************************************************************************)
EXTENDS Integers, Sequences, FiniteSets, Bags, TLC

\* ------------------------------------------------------------------ bounds
\* Largest PIO address / offset (u16::MAX, scaled).
PioMax == 1
\* Largest MMIO address / offset (u64::MAX, scaled).
MmioMax == 2
\* usize::MAX on a 64-bit target: the width of an MMIO offset.
UsizeMax == MmioMax

Kinds == {"pio", "mmio"}
Devices == {"d1", "d2"}
NoDev == "none"

\* ---------------------------------------------------------- bus/address.rs
MaxAddr(k) == IF k = "pio" THEN PioMax ELSE MmioMax
Addrs(k) == 0..MaxAddr(k)
Lens == 0..UsizeMax

Some(v) == [some |-> TRUE, val |-> v]
None == [some |-> FALSE, val |-> 0]

\* u16::checked_add / u64::checked_add on the inner value.
checked_add(k, a, v) == IF a + v > MaxAddr(k) THEN None ELSE Some(a + v)

\* `self.0 + rhs`: the plain operator on the inner unsigned value, which keeps
\* the width of the address type.
Add(k, a, v) == (a + v) % (MaxAddr(k) + 1)

\* `self.0 - rhs.0` on the inner unsigned value.
Sub(k, a, b) == (a - b) % (MaxAddr(k) + 1)

\* Mutant of try_from: `len as A::V`, which truncates to the width.
try_from_cast(k, len) == Some(len % (MaxAddr(k) + 1))

\* A::V::try_from(len): a usize fits a u64, and fits a u16 up to u16::MAX.
try_from(k, len) == IF len > MaxAddr(k) THEN None ELSE Some(len)

\* ------------------------------------------------------------ bus/range.rs
Range(b, s) == [base |-> b, size |-> s]
NoRange == Range(0, 0)

OkRange(r) == [ok |-> TRUE, range |-> r]
ErrRange == [ok |-> FALSE, range |-> NoRange]

\* Mutant of BusRange_new: the size, not size - 1, is added to the base.
BusRange_new_exclusive(k, base, size) ==
    IF size = 0 THEN ErrRange
    ELSE IF ~checked_add(k, base, size).some THEN ErrRange
    ELSE OkRange(Range(base, size))

BusRange_new(k, base, size) ==
    IF size = 0 THEN ErrRange
    ELSE IF ~checked_add(k, base, size - 1).some THEN ErrRange
    ELSE OkRange(Range(base, size))

unit(base) == Range(base, 1)

last(k, r) == Add(k, r.base, r.size - 1)

\* Mutant of overlaps: the end of `self` compared with <= instead of <.
overlaps_off_by_one(k, self, other) ==
    ~(self.base > last(k, other) \/ last(k, self) <= other.base)

\* Mutant of overlaps: only the base of `self` is looked for in `other`.
overlaps_base_only(k, self, other) ==
    ~(self.base > last(k, other) \/ self.base < other.base)

overlaps(k, self, other) ==
    ~(self.base > last(k, other) \/ last(k, self) < other.base)

\* The ranges a caller can hold: built by BusRange::new (or unit).  The size
\* has the width of the address (size: A::V).
Ranges(k) ==
    {r \in [base : Addrs(k), size : 0..MaxAddr(k)] :
        BusRange_new(k, r.base, r.size).ok}

\* -------------------------------------------------------------- bus/mod.rs
\* Bus.devices: BTreeMap<BusRange, D>.  BusRange compares by base alone, so
\* the map is a function from the base of a key to the key's size and the
\* device stored under it.
EmptyBus == [b \in {} |-> [size |-> 0, dev |-> NoDev]]

keys(bus) == {Range(b, bus[b].size) : b \in DOMAIN bus}

\* BTreeMap::insert: an equal key (same base) keeps the key that is already
\* in the map and replaces the value.
insert(bus, r, d) ==
    IF r.base \in DOMAIN bus
    THEN [bus EXCEPT ![r.base] = [size |-> bus[r.base].size, dev |-> d]]
    ELSE [b \in DOMAIN bus \cup {r.base} |->
            IF b = r.base THEN [size |-> r.size, dev |-> d] ELSE bus[b]]

\* BTreeMap::remove(&range): removes the entry whose key has that base.
remove(bus, r) == [b \in DOMAIN bus \ {r.base} |-> bus[b]]

Found(r, d) == [some |-> TRUE, range |-> r, dev |-> d]
NotFound == [some |-> FALSE, range |-> NoRange, dev |-> NoDev]

\* Mutant of device: nth(0), the lowest key at or below addr.
device_first(k, bus, addr) ==
    LET below == {b \in DOMAIN bus : b <= unit(addr).base}
    IN  IF below = {} THEN NotFound
        ELSE LET b == CHOOSE x \in below : \A y \in below : x <= y
                 r == Range(b, bus[b].size)
             IN  IF last(k, r) >= addr THEN Found(r, bus[b].dev) ELSE NotFound

\* Mutant of device: the predecessor is returned without the `last >= addr`
\* filter.
device_no_filter(k, bus, addr) ==
    LET below == {b \in DOMAIN bus : b <= unit(addr).base}
    IN  IF below = {} THEN NotFound
        ELSE LET b == CHOOSE x \in below : \A y \in below : y <= x
             IN  Found(Range(b, bus[b].size), bus[b].dev)

\* devices.range(..=unit(addr)).nth_back(0).filter(|p| p.0.last() >= addr)
device(k, bus, addr) ==
    LET below == {b \in DOMAIN bus : b <= unit(addr).base}
    IN  IF below = {} THEN NotFound
        ELSE LET b == CHOOSE x \in below : \A y \in below : y <= x
                 r == Range(b, bus[b].size)
             IN  IF last(k, r) >= addr THEN Found(r, bus[b].dev) ELSE NotFound

Ok(r, d) == [ok |-> TRUE, err |-> "", len |-> 0, range |-> r, dev |-> d]
OkUnit == Ok(NoRange, NoDev)
Err(e) == [ok |-> FALSE, err |-> e, len |-> 0, range |-> NoRange, dev |-> NoDev]
InvalidAccessLength(n) ==
    [ok |-> FALSE, err |-> "InvalidAccessLength", len |-> n,
     range |-> NoRange, dev |-> NoDev]

\* Bus::register: the result and the bus it leaves.
register(k, bus, range, dev) ==
    IF \E r \in keys(bus) : overlaps(k, range, r)
    THEN [res |-> Err("DeviceOverlap"), bus |-> bus]
    ELSE [res |-> OkUnit, bus |-> insert(bus, range, dev)]

\* Mutant of deregister: the map entry is removed by the key unit(addr)
\* instead of the range that was found.
deregister_by_addr(k, bus, addr) ==
    LET f == device(k, bus, addr)
    IN  IF ~f.some THEN [res |-> NotFound, bus |-> bus]
        ELSE IF unit(addr).base \in DOMAIN bus
             THEN [res |-> Found(f.range, bus[unit(addr).base].dev),
                   bus |-> remove(bus, unit(addr))]
             ELSE [res |-> NotFound, bus |-> bus]

\* Bus::deregister: Option<(range, device)> and the bus it leaves.
deregister(k, bus, addr) ==
    LET f == device(k, bus, addr)
    IN  IF ~f.some THEN [res |-> NotFound, bus |-> bus]
        ELSE IF f.range.base \in DOMAIN bus
             THEN [res |-> Found(f.range, bus[f.range.base].dev),
                   bus |-> remove(bus, f.range)]
             ELSE [res |-> NotFound, bus |-> bus]

\* Mutant of check_access: only the first byte of the access is looked up.
check_access_first_byte(k, bus, addr, len) ==
    LET v == try_from(k, len)
    IN  IF ~v.some THEN InvalidAccessLength(len)
        ELSE LET access_range == BusRange_new(k, addr, v.val)
             IN  IF ~access_range.ok THEN Err("InvalidRange")
                 ELSE LET f == device(k, bus, addr)
                      IN  IF f.some THEN Ok(f.range, f.dev)
                          ELSE Err("DeviceNotFound")

\* Bus::check_access
check_access(k, bus, addr, len) ==
    LET v == try_from(k, len)
    IN  IF ~v.some THEN InvalidAccessLength(len)
        ELSE LET access_range == BusRange_new(k, addr, v.val)
             IN  IF ~access_range.ok THEN Err("InvalidRange")
                 ELSE LET f == device(k, bus, addr)
                      IN  IF f.some /\ last(k, f.range) >= last(k, access_range.range)
                          THEN Ok(f.range, f.dev)
                          ELSE Err("DeviceNotFound")

\* ------------------------------------------------------- device_manager.rs
\* A bus manager: `BusManager<A>` hands out the one bus of address type A that
\* PioManager (A = PioAddress) or MmioManager (A = MmioAddress) works on.
VARIABLES
    kind,       \* the address type A of the bus: "pio" or "mmio"
    bus,        \* BusManager::bus(): the Bus<A, D> itself
    op,         \* the operation that ran last
    arg,        \* its arguments
    ret,        \* what it returned
    calls,      \* the device callbacks it made, in order
    pre,        \* history: the last successful register and the bus before it,
                \* kept for the one operation that follows it
    again       \* history: the last operation is a deregister at the address
                \* of a successful deregister that ran right before it

bus_vars == <<kind, bus, op, arg, ret, calls, pre, again>>

Arg(r, d, a, n) == [range |-> r, dev |-> d, addr |-> a, len |-> n]

Call(d, f, b, o, n) == [dev |-> d, fn |-> f, base |-> b, offset |-> o, len |-> n]

NoPre == [age |-> 2, bus |-> EmptyBus, range |-> NoRange, dev |-> NoDev]

\* age 0: the last operation is that register; age 1: the one before it is.
Older == IF pre.age = 0 THEN [pre EXCEPT !.age = 1] ELSE NoPre

\* Bus::new / IoManager::new: an empty bus of either address type.
InitBus ==
    /\ kind \in Kinds
    /\ bus = EmptyBus
    /\ op = "new"
    /\ arg = Arg(NoRange, NoDev, 0, 0)
    /\ ret = OkUnit
    /\ calls = <<>>
    /\ pre = NoPre
    /\ again = FALSE

\* register_pio / register_mmio -> Bus::register
Register(r, d) ==
    LET out == register(kind, bus, r, d)
    IN  /\ bus' = out.bus
        /\ op' = "register"
        /\ arg' = Arg(r, d, 0, 0)
        /\ ret' = out.res
        /\ calls' = <<>>
        /\ pre' = IF out.res.ok
                  THEN [age |-> 0, bus |-> bus, range |-> r, dev |-> d]
                  ELSE Older
        /\ again' = FALSE
        /\ UNCHANGED kind

\* deregister_pio / deregister_mmio -> Bus::deregister
Deregister(a) ==
    LET out == deregister(kind, bus, a)
    IN  /\ bus' = out.bus
        /\ op' = "deregister"
        /\ arg' = Arg(NoRange, NoDev, a, 0)
        /\ ret' = [ok |-> out.res.some, err |-> "", len |-> 0,
                   range |-> out.res.range, dev |-> out.res.dev]
        /\ calls' = <<>>
        /\ pre' = Older
        /\ again' = (op = "deregister" /\ ret.ok /\ arg.addr = a)
        /\ UNCHANGED kind

\* pio_device / mmio_device -> Bus::device (device_mut finds the same entry)
Device(a) ==
    LET f == device(kind, bus, a)
    IN  /\ op' = "device"
        /\ arg' = Arg(NoRange, NoDev, a, 0)
        /\ ret' = [ok |-> f.some, err |-> "", len |-> 0,
                   range |-> f.range, dev |-> f.dev]
        /\ calls' = <<>>
        /\ pre' = Older
        /\ again' = FALSE
        /\ UNCHANGED <<kind, bus>>

\* Bus::check_access called directly
CheckAccess(a, n) ==
    /\ op' = "check_access"
    /\ arg' = Arg(NoRange, NoDev, a, n)
    /\ ret' = check_access(kind, bus, a, n)
    /\ calls' = <<>>
    /\ pre' = Older
    /\ again' = FALSE
    /\ UNCHANGED <<kind, bus>>

\* Mutant of dispatch: the device gets the bus address as its offset.
dispatch_abs_offset(k, b, f, a, n) ==
    LET c == check_access(k, b, a, n)
    IN  IF c.ok
        THEN [res |-> OkUnit, calls |-> <<Call(c.dev, f, c.range.base, a, n)>>]
        ELSE [res |-> c, calls |-> <<>>]

\* pio_read, pio_write, mmio_read, mmio_write: check_access, then
\* .map(|(range, device)| device.f(range.base(), addr - range.base(), data))
dispatch(k, b, f, a, n) ==
    LET c == check_access(k, b, a, n)
    IN  IF c.ok
        THEN [res |-> OkUnit,
              calls |-> <<Call(c.dev, f, c.range.base, Sub(k, a, c.range.base), n)>>]
        ELSE [res |-> c, calls |-> <<>>]

\* BusRange::new called by the owner of the bus to build a range.
NewRange(base, size) ==
    LET out == BusRange_new(kind, base, size)
    IN  /\ op' = "BusRange::new"
        /\ arg' = Arg(Range(base, size), NoDev, 0, 0)
        /\ ret' = IF out.ok THEN Ok(out.range, NoDev) ELSE Err("InvalidRange")
        /\ calls' = <<>>
        /\ pre' = Older
        /\ again' = FALSE
        /\ UNCHANGED <<kind, bus>>

\* What an address operation hands back: an address or offset, Option::None
\* (ok = FALSE, no error), or the panic of an overflow-checked build.
AddrRet(ok, err, v) ==
    [ok |-> ok, err |-> err, len |-> 0, range |-> NoRange, dev |-> NoDev, val |-> v]

\* The operands of the address operations: the first and the last address
\* of the width, and the offsets 1 and the largest one.
EdgeAddrs(k) == {0, MaxAddr(k)}
EdgeOffsets(k) == {1, MaxAddr(k)}

\* One call of an address operation; the bus is not involved.
AddrCall(name, a, v, out) ==
    /\ op' = name
    /\ arg' = Arg(NoRange, NoDev, a, v)
    /\ ret' = out
    /\ calls' = <<>>
    /\ pre' = Older
    /\ again' = FALSE
    /\ UNCHANGED <<kind, bus>>

\* BusAddress::checked_add
CheckedAdd(a, v) ==
    LET r == checked_add(kind, a, v)
    IN  AddrCall("checked_add", a, v, AddrRet(r.some, "", r.val))

\* impl Add: `MmioAddress(self.0 + rhs)`. The plain `+` panics where the build
\* has overflow checks (checks = TRUE, the debug profile) and wraps where it
\* has none (the release profile).
AddressAdd(a, v, checks) ==
    LET over == a + v > MaxAddr(kind)
    IN  /\ checks => over
        /\ AddrCall("add", a, v,
                    IF over /\ checks THEN AddrRet(FALSE, "panic", 0)
                    ELSE AddrRet(TRUE, "", Add(kind, a, v)))

\* impl Sub: `self.0 - rhs.0`, with the same two builds.
AddressSub(a, b, checks) ==
    LET under == a < b
    IN  /\ checks => under
        /\ AddrCall("sub", a, b,
                    IF under /\ checks THEN AddrRet(FALSE, "panic", 0)
                    ELSE AddrRet(TRUE, "", Sub(kind, a, b)))

Fns(k) == IF k = "pio" THEN {"pio_read", "pio_write"} ELSE {"mmio_read", "mmio_write"}

Dispatch(f, a, n) ==
    LET out == dispatch(kind, bus, f, a, n)
    IN  /\ op' = f
        /\ arg' = Arg(NoRange, NoDev, a, n)
        /\ ret' = out.res
        /\ calls' = out.calls
        /\ pre' = Older
        /\ again' = FALSE
        /\ UNCHANGED <<kind, bus>>

\* ------------------------------------------------- interrupt/kvm/mod.rs
\* Most batch entries a caller hands to add or remove in one call.
MaxBatch == 2

MAX_IRQS == 1024
MAX_LEGACY_IRQS == 24
KVM_IRQ_ROUTING_IRQCHIP == 1
KVM_IRQ_ROUTING_MSI == 2
KVM_IRQCHIP_PIC_MASTER == 0
KVM_IRQCHIP_PIC_SLAVE == 1
KVM_IRQCHIP_IOAPIC == 2

\* kvm_irq_routing_entry: gsi, type_ and the union u, whose first two words
\* are irqchip.irqchip and irqchip.pin, or msi.address_lo and msi.address_hi,
\* and whose third word is msi.data.
IrqchipEntry(gsi, chip, pin) ==
    [gsi |-> gsi, type_ |-> KVM_IRQ_ROUTING_IRQCHIP, u |-> <<chip, pin, 0>>]

MsiEntry(gsi, lo, hi, data) ==
    [gsi |-> gsi, type_ |-> KVM_IRQ_ROUTING_MSI, u |-> <<lo, hi, data>>]

\* Mutant of hash_key: the payload of the entry is part of the key.
hash_key_payload(entry) ==
    LET type1 == IF entry.type_ = KVM_IRQ_ROUTING_IRQCHIP THEN entry.u[1] ELSE 0
    IN  <<type1, entry.type_, entry.gsi, entry.u>>

\* hash_key: (type1 << 48 | type_ << 32) | gsi, where type1 is the controller
\* of a pin route and 0 for every other kind.  The three fields sit in
\* disjoint bits for the kinds and controllers above, so the key is the
\* triple.
hash_key(entry) ==
    LET type1 == IF entry.type_ = KVM_IRQ_ROUTING_IRQCHIP THEN entry.u[1] ELSE 0
    IN  <<type1, entry.type_, entry.gsi>>

\* The entries callers hand to add, remove and modify: two MSI routes of the
\* largest valid GSI that differ in their data only, a pin route of the
\* I/O APIC whose key is also one of the legacy routes, and an MSI route of
\* the smallest invalid GSI.
EntryPool ==
    { MsiEntry(MAX_IRQS - 1, 65, 0, 1), MsiEntry(MAX_IRQS - 1, 65, 0, 2),
      IrqchipEntry(1, KVM_IRQCHIP_IOAPIC, 5),
      MsiEntry(MAX_IRQS, 65, 0, 1) }

Batches == UNION {[1..n -> EntryPool] : n \in 0..MaxBatch}

VARIABLES
    routes,     \* KvmIrqRouting.routes: HashMap<u64, kvm_irq_routing_entry>
    committed,  \* the kvm_irq_routing last handed to vm_fd.set_gsi_routing
    ncalls,     \* set_gsi_routing calls made by the last operation
    rop,        \* the routing operation that ran last
    rarg,       \* its entries
    rret,       \* what it returned: "Ok" or the error
    rpre        \* the table and the routing before the last successful add

routing_vars == <<routes, committed, ncalls, rop, rarg, rret, rpre>>

EmptyRoutes == [k \in {} |-> MsiEntry(0, 0, 0, 0)]

\* HashMap::insert / HashMap::remove
map_insert(m, k, v) == (k :> v) @@ m
map_remove(m, k) == [x \in DOMAIN m \ {k} |-> m[x]]

\* routes.values(): the stored entries, in no particular order.
values(m) ==
    LET vs == {m[k] : k \in DOMAIN m}
    IN  IF Cardinality(vs) = Cardinality(DOMAIN m)
        THEN SetToBag(vs)
        ELSE [e \in vs |-> Cardinality({k \in DOMAIN m : m[k] = e})]

NoRouting == [nr |-> 0, flags |-> 0, entries |-> EmptyBag, set |-> FALSE]

\* Mutant of set_routing: the header element is counted in nr.
set_routing_count_header(m) ==
    [nr |-> Cardinality(DOMAIN m) + 1, flags |-> 0, entries |-> values(m), set |-> TRUE]

\* set_routing: the kvm_irq_routing it builds: the header (nr, flags) and the
\* array of entries.
set_routing(m) ==
    [nr |-> Cardinality(DOMAIN m), flags |-> 0, entries |-> values(m), set |-> TRUE]

\* LegacyIrq::add_legacy_entry
add_legacy_entry(gsi, chip, pin, m) ==
    LET entry == IrqchipEntry(gsi, chip, pin)
    IN  map_insert(m, hash_key(entry), entry)

RECURSIVE legacy_master(_, _)
legacy_master(i, m) ==
    IF i >= 8 THEN m
    ELSE legacy_master(i + 1,
            IF i # 2 THEN add_legacy_entry(i, KVM_IRQCHIP_PIC_MASTER, i, m) ELSE m)

RECURSIVE legacy_slave(_, _)
legacy_slave(i, m) ==
    IF i >= 16 THEN m
    ELSE legacy_slave(i + 1, add_legacy_entry(i, KVM_IRQCHIP_PIC_SLAVE, i - 8, m))

\* Mutant of legacy_ioapic: GSI 0 is routed to pin 0 instead of pin 2.
RECURSIVE legacy_ioapic_no_swap(_, _)
legacy_ioapic_no_swap(i, m) ==
    IF i >= MAX_LEGACY_IRQS THEN m
    ELSE legacy_ioapic_no_swap(i + 1,
            IF i # 2 THEN add_legacy_entry(i, KVM_IRQCHIP_IOAPIC, i, m) ELSE m)

RECURSIVE legacy_ioapic(_, _)
legacy_ioapic(i, m) ==
    IF i >= MAX_LEGACY_IRQS THEN m
    ELSE legacy_ioapic(i + 1,
            IF i = 0 THEN add_legacy_entry(i, KVM_IRQCHIP_IOAPIC, 2, m)
            ELSE IF i # 2 THEN add_legacy_entry(i, KVM_IRQCHIP_IOAPIC, i, m)
            ELSE m)

\* LegacyIrq::initialize_legacy (x86)
initialize_legacy(m) == legacy_ioapic(0, legacy_slave(8, legacy_master(0, m)))

\* The first loop of add: the error of the first entry that fails a check.
RECURSIVE add_check(_, _, _)
add_check(m, entries, i) ==
    IF i > Len(entries) THEN "Ok"
    ELSE IF entries[i].gsi >= MAX_IRQS THEN "EINVAL"
    ELSE IF hash_key(entries[i]) \in DOMAIN m THEN "EEXIST"
    ELSE add_check(m, entries, i + 1)

RECURSIVE insert_all(_, _, _)
insert_all(m, entries, i) ==
    IF i > Len(entries) THEN m
    ELSE insert_all(map_insert(m, hash_key(entries[i]), entries[i]), entries, i + 1)

\* Mutant of remove: only the first entry of the batch is removed.
remove_first_only(m, entries, i) ==
    IF Len(entries) = 0 THEN m ELSE map_remove(m, hash_key(entries[1]))

RECURSIVE remove_all(_, _, _)
remove_all(m, entries, i) ==
    IF i > Len(entries) THEN m
    ELSE remove_all(map_remove(m, hash_key(entries[i])), entries, i + 1)

\* Mutant of add: one loop that checks and inserts entry by entry.
RECURSIVE add_one_pass(_, _, _)
add_one_pass(m, entries, i) ==
    IF i > Len(entries) THEN [err |-> "Ok", routes |-> m]
    ELSE IF entries[i].gsi >= MAX_IRQS THEN [err |-> "EINVAL", routes |-> m]
    ELSE IF hash_key(entries[i]) \in DOMAIN m THEN [err |-> "EEXIST", routes |-> m]
    ELSE add_one_pass(map_insert(m, hash_key(entries[i]), entries[i]), entries, i + 1)

add_unchecked_first(m, entries) == add_one_pass(m, entries, 1)

\* add, up to its call of set_routing: the error of the checks (or "Ok") and
\* the table it leaves.
add(m, entries) ==
    LET err == add_check(m, entries, 1)
    IN  IF err # "Ok" THEN [err |-> err, routes |-> m]
        ELSE [err |-> "Ok", routes |-> insert_all(m, entries, 1)]

\* Mutant of modify: the entry is stored whether or not its key is present.
modify_upsert(m, entry) ==
    [err |-> "Ok", routes |-> map_insert(m, hash_key(entry), entry)]

\* modify, up to its call of set_routing.
modify(m, entry) ==
    IF hash_key(entry) \notin DOMAIN m
    THEN [err |-> "ENOENT", routes |-> m]
    ELSE [err |-> "Ok", routes |-> map_insert(m, hash_key(entry), entry)]

\* The table and the routing as they were before a successful add; age 0
\* right after the add, 1 after a remove of the same batch that follows it.
NoRPre == [age |-> 2, routes |-> EmptyRoutes, committed |-> NoRouting]

\* vm_fd.set_gsi_routing: the backend takes the routing or rejects it.
Commit(m, accepted) ==
    /\ committed' = set_routing(m)
    /\ ncalls' = 1
    /\ rret' = IF accepted THEN "Ok" ELSE "backend"

InitRouting ==
    /\ routes = EmptyRoutes
    /\ committed = NoRouting
    /\ ncalls = 0
    /\ rop = "new"
    /\ rarg = <<>>
    /\ rret = "Ok"
    /\ rpre = NoRPre

\* KvmIrqRouting::initialize
Initialize(accepted) ==
    /\ routes' = initialize_legacy(routes)
    /\ rop' = "initialize"
    /\ rarg' = <<>>
    /\ rpre' = NoRPre
    /\ Commit(routes', accepted)

\* KvmIrqRouting::add
RoutingAdd(entries, accepted) ==
    LET out == add(routes, entries)
    IN  /\ routes' = out.routes
        /\ rop' = "add"
        /\ rarg' = entries
        /\ rpre' = IF out.err = "Ok" /\ accepted
                   THEN [age |-> 0, routes |-> routes, committed |-> committed]
                   ELSE NoRPre
        /\ IF out.err # "Ok"
           THEN rret' = out.err /\ ncalls' = 0 /\ UNCHANGED committed
           ELSE Commit(routes', accepted)

\* KvmIrqRouting::remove
RoutingRemove(entries, accepted) ==
    /\ routes' = remove_all(routes, entries, 1)
    /\ rop' = "remove"
    /\ rarg' = entries
    /\ rpre' = IF rpre.age = 0 /\ rarg = entries
               THEN [rpre EXCEPT !.age = 1]
               ELSE NoRPre
    /\ Commit(routes', accepted)

\* KvmIrqRouting::modify
RoutingModify(entry, accepted) ==
    LET out == modify(routes, entry)
    IN  /\ routes' = out.routes
        /\ rop' = "modify"
        /\ rarg' = <<entry>>
        /\ rpre' = NoRPre
        /\ IF out.err # "Ok"
           THEN rret' = out.err /\ ncalls' = 0 /\ UNCHANGED committed
           ELSE Commit(routes', accepted)

\* ------------------------------------------ interrupt/kvm/legacy_irq.rs
\* The status word and the flags of trigger and ack are scaled: a flags
\* value (u32 in the code) has StatusBits bits and the status word
\* (AtomicUsize) one bit more.
StatusBits == 2
UsizeBits == StatusBits + 1

\* The largest notifier counter the model lets a trigger reach.
MaxNotify == 2

\* The sources of an MSI group (count up to MaxCount).
MaxCount == 2

Pow2(n) == 2 ^ n
FlagValues == 0..(Pow2(StatusBits) - 1)

RECURSIVE BitOr(_, _, _)
BitOr(a, b, n) ==
    IF n = 0 THEN 0
    ELSE (IF a % 2 = 1 \/ b % 2 = 1 THEN 1 ELSE 0)
         + 2 * BitOr(a \div 2, b \div 2, n - 1)

RECURSIVE BitAnd(_, _, _)
BitAnd(a, b, n) ==
    IF n = 0 THEN 0
    ELSE (IF a % 2 = 1 /\ b % 2 = 1 THEN 1 ELSE 0)
         + 2 * BitAnd(a \div 2, b \div 2, n - 1)

\* !x on a usize
BitNot(a) == (Pow2(UsizeBits) - 1) - a

\* Mutant of fetch_or: the flags are stored over the status word.
fetch_or_store(s, flags) == flags

\* Mutant of fetch_or: the flags are added to the status word.
fetch_or_add(s, flags) == (s + flags) % Pow2(UsizeBits)

\* Mutant of fetch_or: the word is left as it is.
fetch_or_skip(s, flags) == s

\* AtomicUsize::fetch_or(flags as usize): the new value of the word.
fetch_or(s, flags) == BitOr(s, flags, UsizeBits)

\* Mutant of fetch_and: the word is cleared.
fetch_and_clear(s, mask) == 0

\* AtomicUsize::fetch_and(mask): the new value of the word.
fetch_and(s, mask) == BitAnd(s, mask, UsizeBits)

\* LegacyIrq::flags(0): status.load() as u32
flags_of(s) == s % Pow2(StatusBits)

VARIABLES
    gkind,      \* the group: "legacy" (LegacyIrq), "msi" (PciMsiIrq) or
                \* "generic" (InterruptSourceGroup<I>)
    gbase,      \* its base
    gcount,     \* its len()
    status,     \* LegacyIrq.status
    irqfd,      \* the counter of the notifier (EventFd) of each source
    gop,        \* the group operation that ran last
    garg,       \* its arguments
    gret,       \* what it returned
    gpre,       \* the status word before the last legacy trigger(0, f)
    notifiers,  \* the sources whose irqfd is registered with the VmFd
    msi_configs,\* PciMsiIrq.msi_configs[i].config
    enabled,    \* MockInterrupt.enabled of each interrupt of a generic group
    gphase,     \* "enabled" after a successful enable, "disabled" and
                \* "disabled again" after the successful disables that
                \* followed, else "none"
    peer        \* a second PciMsiIrq group of the same manager, if there is
                \* one: its base, count, registered irqfds, msi_configs and
                \* last call

trigger_vars == <<gkind, gbase, gcount, status, irqfd, gop, garg, gret, gpre>>

group_vars == <<notifiers, msi_configs, enabled, gphase, peer>>

NoPeer == [base |-> 0, count |-> 0, notifiers |-> {}, configs |-> <<>>,
           op |-> "none", ret |-> "Ok"]

\* InterruptSourceConfig: a legacy configuration or an MSI configuration
\* (MsiIrqSourceConfig) with its address and data.
LegacyCfg == [variant |-> "legacy"]
MsiCfg(hi, lo, data) ==
    [variant |-> "msi", high_addr |-> hi, low_addr |-> lo, data |-> data]

\* MsiIrqSourceConfig::default()
DefaultMsi == MsiCfg(0, 0, 0)

Sources == 0..(gcount - 1)

NoGPre == [age |-> 2, status |-> 0, flags |-> 0]

\* LegacyIrq::new / PciMsiIrq::new with a valid base and count.
InitGroup(k, base, count) ==
    /\ peer = NoPeer
    /\ gkind = k
    /\ gbase = base
    /\ gcount = count
    /\ status = 0
    /\ irqfd = [i \in 0..(count - 1) |-> 0]
    /\ gop = "new"
    /\ garg = [index |-> 0, flags |-> 0]
    /\ gret = "Ok"
    /\ gpre = NoGPre
    /\ notifiers = {}
    /\ msi_configs = IF k = "msi" THEN [i \in 0..(count - 1) |-> DefaultMsi]
                     ELSE <<>>
    /\ enabled = IF k = "generic" THEN [i \in 0..(count - 1) |-> FALSE]
                 ELSE <<>>
    /\ gphase = "none"

\* Mutant of eventfd_write: the notifier of source 0 is written, whatever
\* the index.
eventfd_write_first(fds, i) == [fds EXCEPT ![0] = @ + 1]

\* EventFd::write(1)
eventfd_write(fds, i) == [fds EXCEPT ![i] = @ + 1]

\* LegacyIrq::trigger / PciMsiIrq::trigger
Trigger(index, flags) ==
    /\ index \in Sources => irqfd[index] < MaxNotify
    /\ gop' = "trigger"
    /\ garg' = [index |-> index, flags |-> flags]
    /\ UNCHANGED <<gkind, gbase, gcount, group_vars>>
    /\ IF gkind = "legacy"
       THEN IF index # 0
            THEN /\ gret' = "EINVAL"
                 /\ gpre' = NoGPre
                 /\ UNCHANGED <<status, irqfd>>
            ELSE /\ status' = fetch_or(status, flags)
                 /\ irqfd' = eventfd_write(irqfd, 0)
                 /\ gret' = "Ok"
                 /\ gpre' = [age |-> 0, status |-> status, flags |-> flags]
       ELSE /\ gpre' = NoGPre
            /\ IF index >= gcount \/ flags # 0
               THEN gret' = "EINVAL" /\ UNCHANGED <<status, irqfd>>
               ELSE /\ irqfd' = eventfd_write(irqfd, index)
                    /\ gret' = "Ok"
                    /\ UNCHANGED status

\* LegacyIrq::ack / PciMsiIrq::ack
Ack(index, flags) ==
    /\ gop' = "ack"
    /\ garg' = [index |-> index, flags |-> flags]
    /\ UNCHANGED <<gkind, gbase, gcount, irqfd, group_vars>>
    /\ IF gkind = "legacy"
       THEN IF index # 0
            THEN /\ gret' = "EINVAL"
                 /\ gpre' = NoGPre
                 /\ UNCHANGED status
            ELSE /\ status' = fetch_and(status, BitNot(flags))
                 /\ gret' = "Ok"
                 /\ gpre' = IF gpre.age = 0 /\ gpre.flags = flags
                            THEN [gpre EXCEPT !.age = 1]
                            ELSE NoGPre
       ELSE /\ gpre' = NoGPre
            /\ UNCHANGED status
            /\ gret' = IF index >= gcount \/ flags # 0 THEN "EINVAL" ELSE "Ok"

\* ----------------------- enable / disable / update of a group of sources
\* The configurations callers hand to enable and update of a legacy or MSI
\* group, and the ones they hand to a generic group of MockInterrupt (whose
\* configuration is an index).
CfgPool == {LegacyCfg, MsiCfg(0, 65, 1)}
UpdatePool == {LegacyCfg, MsiCfg(1, 66, 2)}
IndexPool == 0..MaxCount

ConfigLists(k) ==
    UNION {[1..n -> IF k = "generic" THEN IndexPool ELSE CfgPool] :
               n \in 0..(MaxCount + 1)}

\* Mutant of new_msi_routing_entry: the two address words are swapped.
new_msi_routing_entry_swapped(gsi, msicfg) ==
    MsiEntry(gsi, msicfg.high_addr, msicfg.low_addr, msicfg.data)

\* new_msi_routing_entry
new_msi_routing_entry(gsi, msicfg) ==
    MsiEntry(gsi, msicfg.low_addr, msicfg.high_addr, msicfg.data)

\* create_msi_routing_entries: the entries of the configurations, or EINVAL
\* at the first one that is not an MSI configuration.  (base + configs.len()
\* does not overflow u32 for a base and count PciMsiIrq::new accepted.)
RECURSIVE create_msi_routing_entries(_, _, _, _)
create_msi_routing_entries(base, configs, i, entries) ==
    IF i > Len(configs) THEN [err |-> "Ok", entries |-> entries]
    ELSE IF configs[i].variant = "msi"
         THEN create_msi_routing_entries(base, configs, i + 1,
                  Append(entries, new_msi_routing_entry(base + (i - 1), configs[i])))
         ELSE [err |-> "EINVAL", entries |-> <<>>]

\* The entries PciMsiIrq::disable builds from msi_configs.
RECURSIVE disable_entries(_, _, _, _)
disable_entries(base, cfgs, i, entries) ==
    IF i >= gcount THEN entries
    ELSE disable_entries(base, cfgs, i + 1,
             Append(entries, new_msi_routing_entry(base + i, cfgs[i])))

\* VmFd::register_irqfd, accepted by the hypervisor
register_irqfd(ns, i) == ns \cup {i}

\* Mutant of unregister_irqfd: the registration is toggled.
unregister_toggle(ns, i) == IF i \in ns THEN ns \ {i} ELSE ns \cup {i}

\* VmFd::unregister_irqfd, accepted by the hypervisor
unregister_irqfd(ns, i) == ns \ {i}

\* The sources 0..n-1 registered, one call each.
RECURSIVE register_upto(_, _, _)
register_upto(ns, i, n) ==
    IF i >= n THEN ns ELSE register_upto(register_irqfd(ns, i), i + 1, n)

RECURSIVE unregister_upto(_, _, _)
unregister_upto(ns, i, n) ==
    IF i >= n THEN ns ELSE unregister_upto(unregister_irqfd(ns, i), i + 1, n)

\* InterruptSourceGroup<MockInterrupt>::enable: the interrupts are zipped
\* with the configurations; MockInterrupt::enable sets enabled and then
\* fails in update when the configuration is not its index.
RECURSIVE enable_zip(_, _, _)
enable_zip(en, configs, i) ==
    IF i >= gcount \/ i >= Len(configs) THEN [err |-> "Ok", enabled |-> en]
    ELSE LET en2 == [en EXCEPT ![i] = TRUE]
         IN  IF configs[i + 1] # i
             THEN [err |-> "InvalidConfiguration", enabled |-> en2]
             ELSE enable_zip(en2, configs, i + 1)

\* What every group operation does to the record of the last call.
GroupCall(name, a) ==
    /\ gop' = name
    /\ garg' = a
    /\ gpre' = NoGPre
    /\ UNCHANGED <<gkind, gbase, gcount, status, irqfd, peer>>

\* The group counts as enabled after an enable that returned Ok, as
\* disabled after a disable that returned Ok on an enabled group, as
\* disabled again after a further disable that returned Ok, and as none of
\* these after a call that failed.
AfterEnable(r) == IF r = "Ok" THEN "enabled" ELSE "none"
AfterDisable(r) ==
    IF r = "Ok" /\ gphase = "enabled" THEN "disabled"
    ELSE IF r = "Ok" /\ gphase \in {"disabled", "disabled again"}
         THEN "disabled again"
         ELSE "none"
AfterUpdate == IF gphase = "enabled" THEN "enabled" ELSE "none"

\* LegacyIrq::enable.  fail is the position of the first backend call of
\* the operation that the hypervisor rejects, 0 when it accepts them all or
\* the operation makes none.
EnableLegacy(configs, fail) ==
    /\ gkind = "legacy"
    /\ GroupCall("enable", [configs |-> configs])
    /\ UNCHANGED <<routing_vars, msi_configs, enabled>>
    /\ IF Len(configs) # 1
       THEN fail = 0 /\ gret' = "EINVAL" /\ UNCHANGED notifiers
       ELSE IF fail = 1
            THEN gret' = "backend" /\ UNCHANGED notifiers
            ELSE gret' = "Ok" /\ notifiers' = register_irqfd(notifiers, 0)
    /\ gphase' = AfterEnable(gret')

\* PciMsiIrq::enable: the routes are added and committed (backend call 1),
\* then the irqfd of source i is registered (backend call i + 2).
EnableMsi(configs, fail) ==
    /\ gkind = "msi"
    /\ GroupCall("enable", [configs |-> configs])
    /\ UNCHANGED <<msi_configs, enabled>>
    /\ LET made == create_msi_routing_entries(gbase, configs, 1, <<>>)
       IN  IF Len(configs) # gcount \/ made.err # "Ok"
           THEN /\ fail = 0
                /\ gret' = "EINVAL"
                /\ UNCHANGED <<routing_vars, notifiers>>
           ELSE /\ RoutingAdd(made.entries, fail # 1)
                /\ IF rret' # "Ok"
                   THEN gret' = rret' /\ UNCHANGED notifiers
                   ELSE IF fail = 0
                        THEN /\ gret' = "Ok"
                             /\ notifiers' = register_upto(notifiers, 0, gcount)
                        ELSE /\ gret' = "backend"
                             /\ notifiers' = register_upto(notifiers, 0, fail - 2)
    /\ gphase' = AfterEnable(gret')

\* InterruptSourceGroup<I>::enable
EnableGeneric(configs) ==
    /\ gkind = "generic"
    /\ GroupCall("enable", [configs |-> configs])
    /\ UNCHANGED <<routing_vars, notifiers, msi_configs>>
    /\ LET out == enable_zip(enabled, configs, 0)
       IN  enabled' = out.enabled /\ gret' = out.err
    /\ gphase' = AfterEnable(gret')

\* LegacyIrq::disable
DisableLegacy(fail) ==
    /\ gkind = "legacy"
    /\ GroupCall("disable", <<>>)
    /\ UNCHANGED <<routing_vars, msi_configs, enabled>>
    /\ IF fail = 1
       THEN gret' = "backend" /\ UNCHANGED notifiers
       ELSE gret' = "Ok" /\ notifiers' = unregister_irqfd(notifiers, 0)
    /\ gphase' = AfterDisable(gret')

\* PciMsiIrq::disable: the irqfd of source i is unregistered (backend call
\* i + 1), then the routes are removed and the table committed (backend call
\* count + 1).
DisableMsi(fail) ==
    /\ gkind = "msi"
    /\ GroupCall("disable", <<>>)
    /\ UNCHANGED <<msi_configs, enabled>>
    /\ IF fail \in 1..gcount
       THEN /\ gret' = "backend"
            /\ notifiers' = unregister_upto(notifiers, 0, fail - 1)
            /\ UNCHANGED routing_vars
       ELSE /\ notifiers' = unregister_upto(notifiers, 0, gcount)
            /\ RoutingRemove(disable_entries(gbase, msi_configs, 0, <<>>), fail = 0)
            /\ gret' = rret'
    /\ gphase' = AfterDisable(gret')

\* InterruptSourceGroup<I>::disable; MockInterrupt::disable clears enabled.
DisableGeneric ==
    /\ gkind = "generic"
    /\ GroupCall("disable", <<>>)
    /\ UNCHANGED <<routing_vars, notifiers, msi_configs>>
    /\ enabled' = [i \in DOMAIN enabled |-> FALSE]
    /\ gret' = "Ok"
    /\ gphase' = AfterDisable(gret')

\* LegacyIrq::update
UpdateLegacy(index, config) ==
    /\ gkind = "legacy"
    /\ GroupCall("update", [index |-> index, config |-> config])
    /\ UNCHANGED <<routing_vars, notifiers, msi_configs, enabled>>
    /\ gret' = IF index # 0 THEN "EINVAL" ELSE "Ok"
    /\ gphase' = AfterUpdate

\* PciMsiIrq::update
UpdateMsi(index, config, accepted) ==
    /\ gkind = "msi"
    /\ GroupCall("update", [index |-> index, config |-> config])
    /\ UNCHANGED <<notifiers, enabled>>
    /\ IF index >= gcount \/ config.variant # "msi"
       THEN /\ gret' = "EINVAL"
            /\ UNCHANGED <<routing_vars, msi_configs>>
       ELSE /\ msi_configs' = [msi_configs EXCEPT ![index] = config]
            /\ RoutingModify(new_msi_routing_entry(gbase + index, config), accepted)
            /\ gret' = rret'
    /\ gphase' = AfterUpdate

\* PciMsiIrq::new for the second group.
PeerGroup(base, count) ==
    [base |-> base, count |-> count, notifiers |-> {},
     configs |-> [i \in 0..(count - 1) |-> DefaultMsi],
     op |-> "new", ret |-> "Ok"]

\* The entries PciMsiIrq::disable of the second group builds.
peer_entries(p) ==
    [i \in 1..p.count |-> new_msi_routing_entry(p.base + (i - 1), p.configs[i - 1])]

\* PciMsiIrq::enable on the second group, as EnableMsi.
PeerEnable(configs, fail) ==
    /\ peer.count > 0
    /\ UNCHANGED <<trigger_vars, notifiers, msi_configs, enabled, gphase>>
    /\ LET made == create_msi_routing_entries(peer.base, configs, 1, <<>>)
       IN  IF Len(configs) # peer.count \/ made.err # "Ok"
           THEN /\ fail = 0
                /\ peer' = [peer EXCEPT !.op = "enable", !.ret = "EINVAL"]
                /\ UNCHANGED routing_vars
           ELSE /\ RoutingAdd(made.entries, fail # 1)
                /\ peer' = [peer EXCEPT
                      !.op = "enable",
                      !.ret = IF rret' # "Ok" THEN rret'
                              ELSE IF fail = 0 THEN "Ok" ELSE "backend",
                      !.notifiers =
                          IF rret' # "Ok" THEN @
                          ELSE IF fail = 0 THEN register_upto(@, 0, peer.count)
                               ELSE register_upto(@, 0, fail - 2)]

\* PciMsiIrq::disable on the second group, as DisableMsi.
PeerDisable(fail) ==
    /\ peer.count > 0
    /\ UNCHANGED <<trigger_vars, notifiers, msi_configs, enabled, gphase>>
    /\ IF fail \in 1..peer.count
       THEN /\ peer' = [peer EXCEPT
                  !.op = "disable", !.ret = "backend",
                  !.notifiers = unregister_upto(@, 0, fail - 1)]
            /\ UNCHANGED routing_vars
       ELSE /\ RoutingRemove(peer_entries(peer), fail = 0)
            /\ peer' = [peer EXCEPT
                  !.op = "disable", !.ret = rret',
                  !.notifiers = unregister_upto(@, 0, peer.count)]

\* PciMsiIrq::update on the second group, as UpdateMsi.
PeerUpdate(index, config, accepted) ==
    /\ peer.count > 0
    /\ UNCHANGED <<trigger_vars, notifiers, msi_configs, enabled, gphase>>
    /\ IF index >= peer.count \/ config.variant # "msi"
       THEN /\ peer' = [peer EXCEPT !.op = "update", !.ret = "EINVAL"]
            /\ UNCHANGED routing_vars
       ELSE /\ RoutingModify(new_msi_routing_entry(peer.base + index, config), accepted)
            /\ peer' = [peer EXCEPT !.op = "update", !.ret = rret',
                                    !.configs[index] = config]

\* ------------------------------------------- interrupt/kvm/mod.rs: manager
\* InterruptIndex is u32.  A u32 is kept as two 16-bit halves, so that the
\* sums of the code are computed at their width.
Half == 65536
U32(hi, lo) == [hi |-> hi, lo |-> lo]
u32(n) == U32(n \div Half, n % Half)
U32Max == U32(Half - 1, Half - 1)
u32_lt(a, b) == a.hi < b.hi \/ (a.hi = b.hi /\ a.lo < b.lo)
u32_gt(a, b) == u32_lt(b, a)
u32_ge(a, b) == ~u32_lt(a, b)
u32_le(a, b) == ~u32_lt(b, a)

\* a + b on u32: the wrapped sum and whether the true sum exceeds u32::MAX.
u32_add(a, b) ==
    LET lo == a.lo + b.lo
        hi == a.hi + b.hi + (lo \div Half)
    IN  [value |-> U32(hi % Half, lo % Half), overflow |-> hi >= Half]

\* The per-device maximum of MSI interrupts a new manager starts with.
DEFAULT_MAX_MSI_IRQS_PER_DEVICE == 128

\* The groups a caller may ask for.
TypePool == {"legacy", "msi"}
BasePool(ty) ==
    IF ty = "legacy"
    THEN {u32(MAX_LEGACY_IRQS - 1), u32(MAX_LEGACY_IRQS)}
    ELSE {u32(1), u32(MAX_IRQS - 1), u32(MAX_IRQS)}
CountPool == {u32(n) : n \in 0..MaxCount} \cup {U32Max}
CapPool == {u32(1), U32Max}

\* How many groups the caller holds at a time.
MaxLive == 2

VARIABLES
    groups,         \* KvmIrqManagerObj.groups: base -> group
    max_msi_irqs,   \* KvmIrqManagerObj.max_msi_irqs
    mop,            \* the last call on the manager
    marg,           \* its arguments
    mret,           \* its result; "panic" once the program has panicked
    mgroup,         \* the group it returned, NoGroup if none
    live            \* history: the groups create_group returned that were
                    \* not passed to destroy_group since

manager_vars == <<groups, max_msi_irqs, mop, marg, mret, mgroup, live>>

NoGroups == [b \in {} |-> 0]
NoGroup == [ty |-> "none"]
Group(ty, base, count) ==
    [ty |-> ty, base |-> base, count |-> count, status |-> 0]

\* Mutant of base_of: the base is taken to be 0.
base_of_zero(g) == u32(0)

\* InterruptSourceGroup::len / base
len(g) == IF g.ty = "legacy" THEN u32(1) ELSE g.count
base_of(g) == g.base

\* Mutant of LegacyIrq_new: base = MAX_LEGACY_IRQS is accepted.
LegacyIrq_new_inclusive(base, count) ==
    IF count # u32(1) \/ u32_gt(base, u32(MAX_LEGACY_IRQS))
    THEN [err |-> "EINVAL", group |-> NoGroup]
    ELSE [err |-> "Ok", group |-> Group("legacy", base, count)]

\* LegacyIrq::new
LegacyIrq_new(base, count) ==
    IF count # u32(1)
    THEN [err |-> "EINVAL", group |-> NoGroup]
    ELSE IF u32_ge(base, u32(MAX_LEGACY_IRQS))
         THEN [err |-> "EINVAL", group |-> NoGroup]
         ELSE [err |-> "Ok", group |-> Group("legacy", base, count)]

\* PciMsiIrq::new.  base + count is a u32 sum: when it exceeds u32::MAX a
\* build with overflow checks panics and a build without them wraps.
PciMsiIrq_new(base, count, max, checks) ==
    IF u32_gt(count, max) \/ u32_ge(base, u32(MAX_IRQS))
    THEN [err |-> "EINVAL", group |-> NoGroup]
    ELSE LET sum == u32_add(base, count)
         IN  IF sum.overflow /\ checks
             THEN [err |-> "panic", group |-> NoGroup]
             ELSE IF u32_gt(sum.value, u32(MAX_IRQS))
                  THEN [err |-> "EINVAL", group |-> NoGroup]
                  ELSE [err |-> "Ok", group |-> Group("msi", base, count)]

\* KvmIrqManager::new
InitManager ==
    /\ groups = NoGroups
    /\ max_msi_irqs = u32(DEFAULT_MAX_MSI_IRQS_PER_DEVICE)
    /\ mop = "new"
    /\ marg = <<>>
    /\ mret = "Ok"
    /\ mgroup = NoGroup
    /\ live = {}

\* KvmIrqManager::create_group.  checks tells whether the build has overflow
\* checks; it matters only when the sum overflows.
CreateGroup(ty, base, count, checks) ==
    /\ mret # "panic"
    /\ Cardinality(live) < MaxLive
    /\ mop' = "create_group"
    /\ marg' = [ty |-> ty, base |-> base, count |-> count]
    /\ LET out == IF ty = "legacy"
                  THEN LegacyIrq_new(base, count)
                  ELSE PciMsiIrq_new(base, count, max_msi_irqs, checks)
       IN  /\ checks => out.err = "panic"
           /\ mret' = out.err
           /\ mgroup' = out.group
           /\ groups' = IF out.err = "Ok"
                        THEN map_insert(groups, base, out.group)
                        ELSE groups
           /\ live' = IF out.err = "Ok" THEN live \cup {out.group} ELSE live
    /\ UNCHANGED max_msi_irqs

\* KvmIrqManager::destroy_group
DestroyGroup(group) ==
    /\ mret # "panic"
    /\ mop' = "destroy_group"
    /\ marg' = [group |-> group]
    /\ groups' = map_remove(groups, base_of(group))
    /\ mret' = "Ok"
    /\ mgroup' = NoGroup
    /\ live' = live \ {group}
    /\ UNCHANGED max_msi_irqs

\* KvmIrqManager::set_max_msi_irqs
SetMaxMsiIrqs(n) ==
    /\ mret # "panic"
    /\ mop' = "set_max_msi_irqs"
    /\ marg' = [max_msi_irqs |-> n]
    /\ max_msi_irqs' = n
    /\ mret' = "Ok"
    /\ mgroup' = NoGroup
    /\ UNCHANGED <<groups, live>>

\* ------------------------------- device_manager.rs: IoManager and resources
\* Most resources in the set a caller hands to one call.
MaxRes == 2

\* Resource::PioAddressRange, Resource::MmioAddressRange, Resource::LegacyIrq
PioAddressRange(base, size) == [tag |-> "pio", base |-> base, size |-> size]
MmioAddressRange(base, size) == [tag |-> "mmio", base |-> base, size |-> size]
LegacyIrqResource(n) == [tag |-> "irq", base |-> n, size |-> 0]

\* The resources a caller may hand over: a PIO range, a PIO range of size
\* 0, an MMIO range, an MMIO range inside it, an MMIO range that runs over
\* the end of the address space, and an interrupt number.
ResourcePool ==
    {PioAddressRange(0, 1), PioAddressRange(0, 0),
     MmioAddressRange(0, 2), MmioAddressRange(1, 1),
     MmioAddressRange(MmioMax, 2),
     LegacyIrqResource(5)}

RECURSIVE SeqsUpTo(_, _)
SeqsUpTo(S, n) ==
    IF n = 0 THEN {<<>>}
    ELSE LET shorter == SeqsUpTo(S, n - 1)
         IN  shorter \cup {Append(q, x) : q \in shorter, x \in S}

ResourceSets == SeqsUpTo(ResourcePool, MaxRes)

VARIABLES
    pio_bus,    \* IoManager.pio_bus
    mmio_bus,   \* IoManager.mmio_bus
    ioop,       \* the last call on the IoManager
    ioarg,      \* its arguments
    ioret       \* its result: the error ("panic" once the program has
                \* panicked), the position of the resource that failed and
                \* the count deregister_resources returned

io_vars == <<pio_bus, mmio_bus, ioop, ioarg, ioret>>

IoRet(err, at, count) == [err |-> err, at |-> at, count |-> count]

\* IoManager::new
InitIo ==
    /\ pio_bus = EmptyBus
    /\ mmio_bus = EmptyBus
    /\ ioop = "new"
    /\ ioarg = [dev |-> NoDev, resources |-> <<>>]
    /\ ioret = IoRet("Ok", 0, 0)

\* Mutant of register_kind_resources: the ranges registered by the call are
\* taken back when a registration fails.
RECURSIVE register_kind_rollback(_, _, _, _, _, _)
register_kind_rollback(k, b0, b, dev, rs, i) ==
    IF i > Len(rs) THEN [err |-> "Ok", at |-> 0, bus |-> b]
    ELSE IF rs[i].tag # k THEN register_kind_rollback(k, b0, b, dev, rs, i + 1)
    ELSE LET range == BusRange_new(k, rs[i].base, rs[i].size)
         IN  IF ~range.ok THEN [err |-> "panic", at |-> i, bus |-> b]
             ELSE LET out == register(k, b, range.range, dev)
                  IN  IF ~out.res.ok
                      THEN [err |-> out.res.err, at |-> i, bus |-> b0]
                      ELSE register_kind_rollback(k, b0, out.bus, dev, rs, i + 1)

register_kind_undo(k, b, dev, rs, i) == register_kind_rollback(k, b, b, dev, rs, i)

\* The loop of register_mmio_resources (k = "mmio") and of
\* register_pio_resources (k = "pio") from resource i on: a resource of the
\* other kinds is skipped, the range of a resource of kind k is built with
\* BusRange::new(..).unwrap(), which panics on a range that is not valid, and
\* registered on the bus, whose error is returned at once.
RECURSIVE register_kind_resources(_, _, _, _, _)
register_kind_resources(k, b, dev, rs, i) ==
    IF i > Len(rs) THEN [err |-> "Ok", at |-> 0, bus |-> b]
    ELSE IF rs[i].tag # k THEN register_kind_resources(k, b, dev, rs, i + 1)
    ELSE LET range == BusRange_new(k, rs[i].base, rs[i].size)
         IN  IF ~range.ok THEN [err |-> "panic", at |-> i, bus |-> b]
             ELSE LET out == register(k, b, range.range, dev)
                  IN  IF ~out.res.ok
                      THEN [err |-> out.res.err, at |-> i, bus |-> b]
                      ELSE register_kind_resources(k, out.bus, dev, rs, i + 1)

\* IoManager::register_mmio_resources / register_pio_resources
register_mmio_resources(b, dev, rs) == register_kind_resources("mmio", b, dev, rs, 1)
register_pio_resources(b, dev, rs) == register_kind_resources("pio", b, dev, rs, 1)

\* IoManager::register_resources: the MMIO pass, then the PIO pass.
register_resources(pio, mmio, dev, rs) ==
    LET m == register_mmio_resources(mmio, dev, rs)
    IN  IF m.err # "Ok"
        THEN [err |-> m.err, at |-> m.at, pio |-> pio, mmio |-> m.bus]
        ELSE LET p == register_pio_resources(pio, dev, rs)
             IN  [err |-> p.err, at |-> p.at, pio |-> p.bus, mmio |-> m.bus]

\* Mutant of deregister_resources: every range resource is counted.
RECURSIVE deregister_count_all(_, _, _, _, _)
deregister_count_all(pio, mmio, rs, i, count) ==
    IF i > Len(rs) THEN [count |-> count, pio |-> pio, mmio |-> mmio]
    ELSE IF rs[i].tag = "pio"
         THEN deregister_count_all(deregister("pio", pio, rs[i].base).bus, mmio,
                                   rs, i + 1, count + 1)
         ELSE IF rs[i].tag = "mmio"
              THEN deregister_count_all(pio,
                                        deregister("mmio", mmio, rs[i].base).bus,
                                        rs, i + 1, count + 1)
              ELSE deregister_count_all(pio, mmio, rs, i + 1, count)

\* IoManager::deregister_resources from resource i on.
RECURSIVE deregister_resources(_, _, _, _, _)
deregister_resources(pio, mmio, rs, i, count) ==
    IF i > Len(rs) THEN [count |-> count, pio |-> pio, mmio |-> mmio]
    ELSE IF rs[i].tag = "pio"
         THEN LET out == deregister("pio", pio, rs[i].base)
              IN  deregister_resources(out.bus, mmio, rs, i + 1,
                      IF out.res.some THEN count + 1 ELSE count)
         ELSE IF rs[i].tag = "mmio"
              THEN LET out == deregister("mmio", mmio, rs[i].base)
                   IN  deregister_resources(pio, out.bus, rs, i + 1,
                           IF out.res.some THEN count + 1 ELSE count)
              ELSE deregister_resources(pio, mmio, rs, i + 1, count)

IoCall(name, dev, rs) ==
    /\ ioret.err # "panic"
    /\ ioop' = name
    /\ ioarg' = [dev |-> dev, resources |-> rs]

RegisterMmioResources(dev, rs) ==
    /\ IoCall("register_mmio_resources", dev, rs)
    /\ LET out == register_mmio_resources(mmio_bus, dev, rs)
       IN  /\ mmio_bus' = out.bus
           /\ ioret' = IoRet(out.err, out.at, 0)
    /\ UNCHANGED pio_bus

RegisterPioResources(dev, rs) ==
    /\ IoCall("register_pio_resources", dev, rs)
    /\ LET out == register_pio_resources(pio_bus, dev, rs)
       IN  /\ pio_bus' = out.bus
           /\ ioret' = IoRet(out.err, out.at, 0)
    /\ UNCHANGED mmio_bus

RegisterResources(dev, rs) ==
    /\ IoCall("register_resources", dev, rs)
    /\ LET out == register_resources(pio_bus, mmio_bus, dev, rs)
       IN  /\ pio_bus' = out.pio
           /\ mmio_bus' = out.mmio
           /\ ioret' = IoRet(out.err, out.at, 0)

DeregisterResources(rs) ==
    /\ IoCall("deregister_resources", NoDev, rs)
    /\ LET out == deregister_resources(pio_bus, mmio_bus, rs, 1, 0)
       IN  /\ pio_bus' = out.pio
           /\ mmio_bus' = out.mmio
           /\ ioret' = IoRet("Ok", 0, out.count)

\* Threads that call trigger and ack on one legacy group at the same time.
NThreads == 2
Threads == 1..NThreads

\* The calls the threads issue altogether.
MaxCalls == 3

\* The flags the threads pass.
ThreadFlags == {1, 2, 3}

VARIABLES
    pc,         \* where each thread is: "idle", or "write" inside trigger
                \* between the fetch_or and the write to the notifier
    issued,     \* the calls issued so far
    guard,      \* the thread that holds the exclusive access (`&mut`, or the
                \* MutexGuard) to the object the threads share; 0: nobody
    local       \* the locals of each thread's call in progress

thread_vars == <<pc, issued, guard, local>>

NoLocal == [range |-> NoRange, dev |-> NoDev, overlap |-> FALSE, raced |-> FALSE]

InitThreads ==
    /\ pc = [t \in Threads |-> "idle"]
    /\ issued = <<>>
    /\ guard = 0
    /\ local = [t \in Threads |-> NoLocal]

\* trigger(0, flags), first statement: status.fetch_or(flags, SeqCst)
TriggerFetchOr(t, flags) ==
    /\ gkind = "legacy"
    /\ pc[t] = "idle"
    /\ Len(issued) < MaxCalls
    /\ status' = fetch_or(status, flags)
    /\ pc' = [pc EXCEPT ![t] = "write"]
    /\ issued' = Append(issued, [op |-> "trigger", flags |-> flags])
    /\ UNCHANGED <<gkind, gbase, gcount, irqfd, gop, garg, gret, gpre, group_vars,
                   guard, local>>

\* trigger(0, flags), second statement: irqfd.write(1)
TriggerWrite(t) ==
    /\ pc[t] = "write"
    /\ irqfd' = eventfd_write(irqfd, 0)
    /\ pc' = [pc EXCEPT ![t] = "idle"]
    /\ UNCHANGED <<gkind, gbase, gcount, status, gop, garg, gret, gpre, issued,
                   group_vars, guard, local>>

\* ack(0, flags): status.fetch_and(!flags, SeqCst)
AckFetchAnd(t, flags) ==
    /\ gkind = "legacy"
    /\ pc[t] = "idle"
    /\ Len(issued) < MaxCalls
    /\ status' = fetch_and(status, BitNot(flags))
    /\ issued' = Append(issued, [op |-> "ack", flags |-> flags])
    /\ UNCHANGED <<gkind, gbase, gcount, irqfd, gop, garg, gret, gpre, pc,
                   group_vars, guard, local>>

\* ------------------------------------------------ bus/mod.rs: threads
\* Bus::register, register_pio and register_mmio take `&mut self`: a thread
\* runs one only while it holds the exclusive borrow of the manager, which
\* threads that share the manager get from the lock they keep it in.

\* Mutant of exclusive: the borrow is handed out while another thread holds it.
exclusive_shared(g) == TRUE

\* `&mut self`: no other borrow of the manager is live.
exclusive(g) == g = 0

\* The ranges the threads register: the ones at the bottom of the address
\* space, which overlap one another.
ThreadRanges(k) == {r \in Ranges(k) : r.base <= 1 /\ r.size <= 2}

\* A thread issues register(range, device) and waits for the manager; the
\* threads issue as many calls as there are threads.
RegisterIssue(t, r, d) ==
    /\ pc[t] = "idle"
    /\ Len(issued) + Cardinality({u \in Threads : pc[u] # "idle"}) < NThreads
    /\ pc' = [pc EXCEPT ![t] = "wait"]
    /\ local' = [local EXCEPT ![t] =
                    [range |-> r, dev |-> d, overlap |-> FALSE,
                     raced |-> \E u \in Threads : pc[u] # "idle"]]
    /\ UNCHANGED <<bus_vars, issued, guard>>

\* The thread gets the exclusive borrow and enters Bus::register.
RegisterEnter(t) ==
    /\ pc[t] = "wait"
    /\ exclusive(guard)
    /\ guard' = t
    /\ pc' = [pc EXCEPT ![t] = "scan"]
    /\ UNCHANGED <<bus_vars, issued, local>>

\* for r in self.devices.keys() { if range.overlaps(r) { return Err(..) } }
RegisterScan(t) ==
    /\ pc[t] = "scan"
    /\ local' = [local EXCEPT ![t].overlap =
                    \E r \in keys(bus) : overlaps(kind, local[t].range, r)]
    /\ pc' = [pc EXCEPT ![t] = "insert"]
    /\ UNCHANGED <<bus_vars, issued, guard>>

\* self.devices.insert(range, device); Ok(()) -- or the early return; the
\* borrow ends with the call.
RegisterReturn(t) ==
    /\ pc[t] = "insert"
    /\ bus' = IF local[t].overlap THEN bus
              ELSE insert(bus, local[t].range, local[t].dev)
    /\ issued' = Append(issued, [op |-> "register", thread |-> t,
                                 range |-> local[t].range, dev |-> local[t].dev,
                                 ok |-> ~local[t].overlap,
                                 raced |-> local[t].raced])
    /\ guard' = 0
    /\ pc' = [pc EXCEPT ![t] = "idle"]
    /\ local' = [local EXCEPT ![t] = NoLocal]
    /\ UNCHANGED <<kind, op, arg, ret, calls, pre, again>>

\* ---------------------------------------- interrupt/kvm/mod.rs: threads
\* add, remove and modify called from several threads.  Each starts with
\* `let mut routes = self.routes.lock().unwrap();`.

\* The calls the threads make: one entry each.
RoutingCalls == {"add", "remove", "modify"} \X EntryPool

\* Mutant of guard_until_return: the MutexGuard is dropped once the table
\* is changed, before set_routing runs.
guard_dropped_early(t) == 0

\* `routes`, the MutexGuard, is a local of the whole function body: the
\* thread still holds the lock when it calls set_routing.
guard_until_return(t) == t

\* What the call does to the table before it commits.
routing_mutation(m, name, entry) ==
    IF name = "add" THEN add(m, <<entry>>)
    ELSE IF name = "remove"
         THEN [err |-> "Ok", routes |-> remove_all(m, <<entry>>, 1)]
         ELSE modify(m, entry)

\* A thread calls add, remove or modify.
RoutingIssue(t, name, entry) ==
    /\ pc[t] = "idle"
    /\ Len(issued) + Cardinality({u \in Threads : pc[u] # "idle"}) < NThreads
    /\ pc' = [pc EXCEPT ![t] = "lock"]
    /\ local' = [local EXCEPT ![t] =
                    [op |-> name, entry |-> entry, table |-> EmptyRoutes]]
    /\ UNCHANGED <<routing_vars, issued, guard>>

\* self.routes.lock()
RoutingLock(t) ==
    /\ pc[t] = "lock"
    /\ exclusive(guard)
    /\ guard' = t
    /\ pc' = [pc EXCEPT ![t] = "mutate"]
    /\ UNCHANGED <<routing_vars, issued, local>>

\* The checks and the inserts or removes of the call; an error returns at
\* once, which drops the guard.
RoutingMutate(t) ==
    LET out == routing_mutation(routes, local[t].op, local[t].entry)
    IN  /\ pc[t] = "mutate"
        /\ routes' = out.routes
        /\ rop' = local[t].op
        /\ rarg' = <<local[t].entry>>
        /\ rpre' = NoRPre
        /\ UNCHANGED committed
        /\ IF out.err # "Ok"
           THEN /\ rret' = out.err
                /\ ncalls' = 0
                /\ issued' = Append(issued, [op |-> local[t].op, thread |-> t,
                                             ret |-> out.err, handed |-> NoRouting])
                /\ guard' = 0
                /\ pc' = [pc EXCEPT ![t] = "idle"]
                /\ local' = [local EXCEPT ![t] = NoLocal]
           ELSE /\ UNCHANGED <<rret, ncalls, issued>>
                /\ guard' = guard_until_return(t)
                /\ pc' = [pc EXCEPT ![t] = "commit"]
                /\ local' = [local EXCEPT ![t].table = out.routes]

\* self.set_routing(&routes), and the return that drops the guard.
RoutingCommit(t, accepted) ==
    /\ pc[t] = "commit"
    /\ Commit(routes, accepted)
    /\ rop' = local[t].op
    /\ rarg' = <<local[t].entry>>
    /\ issued' = Append(issued, [op |-> local[t].op, thread |-> t,
                                 ret |-> rret', handed |-> committed'])
    /\ guard' = IF guard = t THEN 0 ELSE guard
    /\ pc' = [pc EXCEPT ![t] = "idle"]
    /\ local' = [local EXCEPT ![t] = NoLocal]
    /\ UNCHANGED <<routes, rpre>>

\* ------------------------------------------------- lib.rs: Mutex adapter
\* impl<T: DeviceIoMut> DeviceIo for Mutex<T>: each method is
\* `self.lock().unwrap().f(base, offset, data)`.  The inner device is the
\* one all threads dispatch to; its operations return.

\* The dispatches the threads make: the method, the offset and the data,
\* all at base 1.
DeviceFns == {"read", "write"}
DeviceCalls == DeviceFns \X {0, 2} \X {3}

\* Mutant of unlock: the guard is kept when the method returns.
unlock_never(g, t) == g

\* The temporary MutexGuard is dropped at the end of the statement.
unlock(g, t) == IF g = t THEN 0 ELSE g

\* A thread dispatches f(base, offset, data) to the wrapped device.
DeviceIssue(t, f, o, n) ==
    /\ pc[t] = "idle"
    /\ Len(issued) + Cardinality({u \in Threads : pc[u] # "idle"}) < NThreads
    /\ pc' = [pc EXCEPT ![t] = "lock"]
    /\ local' = [local EXCEPT ![t] =
                    [call |-> Call("d1", f, 1, o, n), inner |-> <<>>,
                     raced |-> \E u \in Threads : pc[u] # "idle"]]
    /\ UNCHANGED <<bus_vars, issued, guard>>

\* self.lock().unwrap()
DeviceLock(t) ==
    /\ pc[t] = "lock"
    /\ exclusive(guard)
    /\ guard' = t
    /\ pc' = [pc EXCEPT ![t] = "inner"]
    /\ UNCHANGED <<bus_vars, issued, local>>

\* .f(base, offset, data) on the inner device, through the guard.
DeviceInner(t) ==
    /\ pc[t] = "inner"
    /\ calls' = Append(calls, local[t].call)
    /\ local' = [local EXCEPT ![t].inner = Append(@, local[t].call)]
    /\ pc' = [pc EXCEPT ![t] = "return"]
    /\ UNCHANGED <<kind, bus, op, arg, ret, pre, again, issued, guard>>

\* The method returns.
DeviceReturn(t) ==
    /\ pc[t] = "return"
    /\ guard' = unlock(guard, t)
    /\ issued' = Append(issued, [thread |-> t, call |-> local[t].call,
                                 inner |-> local[t].inner,
                                 raced |-> local[t].raced])
    /\ pc' = [pc EXCEPT ![t] = "idle"]
    /\ local' = [local EXCEPT ![t] = NoLocal]
    /\ UNCHANGED bus_vars

\* ------------------------------------------------------- specifications
vars == <<bus_vars, routing_vars, trigger_vars, group_vars, thread_vars,
          manager_vars, io_vars>>

\* The group the bus and the routing table are studied beside: a legacy
\* group nobody calls.
IdleGroup == InitGroup("legacy", MAX_LEGACY_IRQS - 1, 1)

Init ==
    InitBus /\ InitRouting /\ IdleGroup /\ InitThreads /\ InitManager /\ InitIo

\* The operations of a bus manager.
Next ==
    \/ \E r \in Ranges(kind) : \E d \in Devices :
           Register(r, d) /\ UNCHANGED <<routing_vars, trigger_vars, group_vars, thread_vars, manager_vars, io_vars>>
    \/ \E a \in Addrs(kind) : Deregister(a) /\ UNCHANGED <<routing_vars, trigger_vars, group_vars, thread_vars, manager_vars, io_vars>>
    \/ \E a \in Addrs(kind) : Device(a) /\ UNCHANGED <<routing_vars, trigger_vars, group_vars, thread_vars, manager_vars, io_vars>>
    \/ \E a \in Addrs(kind) : \E n \in Lens :
           CheckAccess(a, n) /\ UNCHANGED <<routing_vars, trigger_vars, group_vars, thread_vars, manager_vars, io_vars>>
    \/ \E f \in Fns(kind) : \E a \in Addrs(kind) : \E n \in Lens :
           Dispatch(f, a, n) /\ UNCHANGED <<routing_vars, trigger_vars, group_vars, thread_vars, manager_vars, io_vars>>
    \/ \E a \in Addrs(kind) : \E n \in 0..MaxAddr(kind) :
           NewRange(a, n) /\ UNCHANGED <<routing_vars, trigger_vars, group_vars, thread_vars, manager_vars, io_vars>>
    \/ \E a \in EdgeAddrs(kind) : \E v \in EdgeOffsets(kind) :
           CheckedAdd(a, v) /\ UNCHANGED <<routing_vars, trigger_vars, group_vars, thread_vars, manager_vars, io_vars>>
    \/ \E a \in EdgeAddrs(kind) : \E v \in EdgeOffsets(kind) : \E checks \in BOOLEAN :
           AddressAdd(a, v, checks) /\ UNCHANGED <<routing_vars, trigger_vars, group_vars, thread_vars, manager_vars, io_vars>>
    \/ \E a \in EdgeAddrs(kind) : \E b \in EdgeAddrs(kind) : \E checks \in BOOLEAN :
           AddressSub(a, b, checks) /\ UNCHANGED <<routing_vars, trigger_vars, group_vars, thread_vars, manager_vars, io_vars>>

Spec == Init /\ [][Next]_vars

\* The operations of the routing table.
NextRouting ==
    \/ \E ok \in BOOLEAN : Initialize(ok) /\ UNCHANGED <<bus_vars, trigger_vars, group_vars, thread_vars, manager_vars, io_vars>>
    \/ \E es \in Batches : \E ok \in BOOLEAN :
           RoutingAdd(es, ok) /\ UNCHANGED <<bus_vars, trigger_vars, group_vars, thread_vars, manager_vars, io_vars>>
    \/ \E es \in Batches : \E ok \in BOOLEAN :
           RoutingRemove(es, ok) /\ UNCHANGED <<bus_vars, trigger_vars, group_vars, thread_vars, manager_vars, io_vars>>
    \/ \E e \in EntryPool : \E ok \in BOOLEAN :
           RoutingModify(e, ok) /\ UNCHANGED <<bus_vars, trigger_vars, group_vars, thread_vars, manager_vars, io_vars>>

SpecRouting == Init /\ [][NextRouting]_vars

\* A group of either kind and the trigger and ack calls on it, one call at a
\* time.
InitTrigger ==
    /\ InitBus /\ kind = "pio"
    /\ InitRouting
    /\ InitThreads
    /\ InitManager
    /\ InitIo
    /\ \/ InitGroup("legacy", MAX_LEGACY_IRQS - 1, 1)
       \/ \E count \in 1..MaxCount : InitGroup("msi", MAX_IRQS - count, count)

NextTrigger ==
    \/ \E i \in 0..gcount : \E f \in FlagValues :
           Trigger(i, f) /\ UNCHANGED <<bus_vars, routing_vars, thread_vars, manager_vars, io_vars>>
    \/ \E i \in 0..gcount : \E f \in FlagValues :
           Ack(i, f) /\ UNCHANGED <<bus_vars, routing_vars, thread_vars, manager_vars, io_vars>>

SpecTrigger == InitTrigger /\ [][NextTrigger]_vars

\* One legacy group and threads that call trigger and ack on it, statement
\* by statement.
InitConcurrent ==
    /\ InitBus /\ kind = "pio"
    /\ InitRouting
    /\ InitThreads
    /\ InitManager
    /\ InitIo
    /\ InitGroup("legacy", MAX_LEGACY_IRQS - 1, 1)

NextConcurrent ==
    \/ \E t \in Threads : \E f \in ThreadFlags :
           TriggerFetchOr(t, f) /\ UNCHANGED <<bus_vars, routing_vars, manager_vars, io_vars>>
    \/ \E t \in Threads :
           TriggerWrite(t) /\ UNCHANGED <<bus_vars, routing_vars, manager_vars, io_vars>>
    \/ \E t \in Threads : \E f \in ThreadFlags :
           AckFetchAnd(t, f) /\ UNCHANGED <<bus_vars, routing_vars, manager_vars, io_vars>>

SpecConcurrent == InitConcurrent /\ [][NextConcurrent]_vars

\* The routing table after KvmIrqRouting::new and a successful initialize.
InitializedRouting ==
    /\ routes = initialize_legacy(EmptyRoutes)
    /\ committed = set_routing(routes)
    /\ ncalls = 1
    /\ rop = "initialize"
    /\ rarg = <<>>
    /\ rret = "Ok"
    /\ rpre = NoRPre

\* A group of any kind, created beside the initialized routing table, and
\* the enable, disable and update calls on it.
InitGroups ==
    /\ InitBus /\ kind = "pio"
    /\ InitializedRouting
    /\ InitThreads
    /\ InitManager
    /\ InitIo
    /\ \/ InitGroup("legacy", MAX_LEGACY_IRQS - 1, 1)
       \/ \E count \in 1..MaxCount : InitGroup("msi", MAX_IRQS - count, count)
       \/ \E count \in 1..MaxCount : InitGroup("generic", 0, count)

NextGroups ==
    \/ \E cs \in ConfigLists("legacy") : \E fail \in 0..1 :
           EnableLegacy(cs, fail) /\ UNCHANGED <<bus_vars, thread_vars, manager_vars, io_vars>>
    \/ \E cs \in ConfigLists("msi") : \E fail \in 0..(gcount + 1) :
           EnableMsi(cs, fail) /\ UNCHANGED <<bus_vars, thread_vars, manager_vars, io_vars>>
    \/ \E cs \in ConfigLists("generic") :
           EnableGeneric(cs) /\ UNCHANGED <<bus_vars, thread_vars, manager_vars, io_vars>>
    \/ \E fail \in 0..1 :
           DisableLegacy(fail) /\ UNCHANGED <<bus_vars, thread_vars, manager_vars, io_vars>>
    \/ \E fail \in 0..(gcount + 1) :
           DisableMsi(fail) /\ UNCHANGED <<bus_vars, thread_vars, manager_vars, io_vars>>
    \/ DisableGeneric /\ UNCHANGED <<bus_vars, thread_vars, manager_vars, io_vars>>
    \/ \E i \in 0..gcount : \E c \in UpdatePool :
           UpdateLegacy(i, c) /\ UNCHANGED <<bus_vars, thread_vars, manager_vars, io_vars>>
    \/ \E i \in 0..gcount : \E c \in UpdatePool : \E ok \in BOOLEAN :
           UpdateMsi(i, c, ok) /\ UNCHANGED <<bus_vars, thread_vars, manager_vars, io_vars>>

SpecGroups == InitGroups /\ [][NextGroups]_vars

\* The interrupt manager beside the initialized routing table: groups are
\* created and destroyed and the per-device maximum is changed.
InitManaged ==
    /\ InitBus /\ kind = "pio"
    /\ InitializedRouting
    /\ IdleGroup
    /\ InitThreads
    /\ InitManager
    /\ InitIo

\* The groups a caller holds: those of the manager and the ones returned
\* to it that it has not destroyed.
Held == {groups[b] : b \in DOMAIN groups} \cup live

NextManager ==
    \/ \E ty \in TypePool : \E b \in BasePool(ty) : \E c \in CountPool :
       \E checks \in BOOLEAN :
           CreateGroup(ty, b, c, checks)
               /\ UNCHANGED <<bus_vars, routing_vars, trigger_vars,
                              group_vars, thread_vars, io_vars>>
    \/ \E g \in Held :
           DestroyGroup(g)
               /\ UNCHANGED <<bus_vars, routing_vars, trigger_vars,
                              group_vars, thread_vars, io_vars>>
    \/ \E n \in CapPool :
           SetMaxMsiIrqs(n)
               /\ UNCHANGED <<bus_vars, routing_vars, trigger_vars,
                              group_vars, thread_vars, io_vars>>

SpecManager == InitManaged /\ [][NextManager]_vars

\* A legacy or MSI group created through the manager and held by the
\* caller, who enables and disables it and has the manager destroy it.
HeldGroup == Group(gkind, u32(gbase), u32(gcount))

InitDestroy ==
    /\ InitBus /\ kind = "pio"
    /\ InitializedRouting
    /\ InitThreads
    /\ \/ InitGroup("legacy", MAX_LEGACY_IRQS - 1, 1)
       \/ \E count \in 1..MaxCount : InitGroup("msi", MAX_IRQS - count, count)
    /\ groups = (u32(gbase) :> HeldGroup)
    /\ max_msi_irqs = u32(DEFAULT_MAX_MSI_IRQS_PER_DEVICE)
    /\ mop = "create_group"
    /\ marg = [ty |-> gkind, base |-> u32(gbase), count |-> u32(gcount)]
    /\ mret = "Ok"
    /\ mgroup = HeldGroup
    /\ live = {HeldGroup}
    /\ InitIo

\* Configuration lists of the length of the group.
FittingLists(k) == {cs \in ConfigLists(k) : Len(cs) = gcount}

NextDestroy ==
    \/ \E cs \in FittingLists("legacy") : \E fail \in 0..1 :
           EnableLegacy(cs, fail) /\ UNCHANGED <<bus_vars, thread_vars, manager_vars, io_vars>>
    \/ \E cs \in FittingLists("msi") : \E fail \in 0..(gcount + 1) :
           EnableMsi(cs, fail) /\ UNCHANGED <<bus_vars, thread_vars, manager_vars, io_vars>>
    \/ \E fail \in 0..1 :
           DisableLegacy(fail) /\ UNCHANGED <<bus_vars, thread_vars, manager_vars, io_vars>>
    \/ \E fail \in 0..(gcount + 1) :
           DisableMsi(fail) /\ UNCHANGED <<bus_vars, thread_vars, manager_vars, io_vars>>
    \/ DestroyGroup(HeldGroup)
           /\ UNCHANGED <<bus_vars, routing_vars, trigger_vars, group_vars,
                          thread_vars, io_vars>>

SpecDestroy == InitDestroy /\ [][NextDestroy]_vars

\* The IoManager with its two buses: resource sets of one device are
\* registered and deregistered.
InitResources ==
    /\ InitBus /\ kind = "pio"
    /\ InitRouting
    /\ IdleGroup
    /\ InitThreads
    /\ InitManager
    /\ InitIo

NextResources ==
    \/ \E rs \in ResourceSets :
           RegisterMmioResources("d1", rs)
               /\ UNCHANGED <<bus_vars, routing_vars, trigger_vars,
                              group_vars, thread_vars, manager_vars>>
    \/ \E rs \in ResourceSets :
           RegisterPioResources("d1", rs)
               /\ UNCHANGED <<bus_vars, routing_vars, trigger_vars,
                              group_vars, thread_vars, manager_vars>>
    \/ \E rs \in ResourceSets :
           RegisterResources("d1", rs)
               /\ UNCHANGED <<bus_vars, routing_vars, trigger_vars,
                              group_vars, thread_vars, manager_vars>>
    \/ \E rs \in ResourceSets :
           DeregisterResources(rs)
               /\ UNCHANGED <<bus_vars, routing_vars, trigger_vars,
                              group_vars, thread_vars, manager_vars>>

SpecResources == InitResources /\ [][NextResources]_vars

\* Threads that register ranges on one bus.
NextBusThreads ==
    \/ \E t \in Threads : \E r \in ThreadRanges(kind) : \E d \in Devices :
           RegisterIssue(t, r, d) /\ UNCHANGED <<routing_vars, trigger_vars, group_vars, manager_vars, io_vars>>
    \/ \E t \in Threads :
           RegisterEnter(t) /\ UNCHANGED <<routing_vars, trigger_vars, group_vars, manager_vars, io_vars>>
    \/ \E t \in Threads :
           RegisterScan(t) /\ UNCHANGED <<routing_vars, trigger_vars, group_vars, manager_vars, io_vars>>
    \/ \E t \in Threads :
           RegisterReturn(t) /\ UNCHANGED <<routing_vars, trigger_vars, group_vars, manager_vars, io_vars>>

SpecBusThreads == Init /\ [][NextBusThreads]_vars

\* Threads that change the routing table.
NextRoutingThreads ==
    \/ \E t \in Threads : \E c \in RoutingCalls :
           RoutingIssue(t, c[1], c[2]) /\ UNCHANGED <<bus_vars, trigger_vars, group_vars, manager_vars, io_vars>>
    \/ \E t \in Threads :
           RoutingLock(t) /\ UNCHANGED <<bus_vars, trigger_vars, group_vars, manager_vars, io_vars>>
    \/ \E t \in Threads :
           RoutingMutate(t) /\ UNCHANGED <<bus_vars, trigger_vars, group_vars, manager_vars, io_vars>>
    \/ \E t \in Threads : \E accepted \in BOOLEAN :
           RoutingCommit(t, accepted) /\ UNCHANGED <<bus_vars, trigger_vars, group_vars, manager_vars, io_vars>>

SpecRoutingThreads == Init /\ [][NextRoutingThreads]_vars

\* Threads that dispatch to one Mutex-wrapped device.  A thread that can
\* take a step takes it: the threads are scheduled and the operations of
\* the inner device return.
NextDevice ==
    \/ \E t \in Threads : \E c \in DeviceCalls :
           DeviceIssue(t, c[1], c[2], c[3]) /\ UNCHANGED <<routing_vars, trigger_vars, group_vars, manager_vars, io_vars>>
    \/ \E t \in Threads :
           DeviceLock(t) /\ UNCHANGED <<routing_vars, trigger_vars, group_vars, manager_vars, io_vars>>
    \/ \E t \in Threads :
           DeviceInner(t) /\ UNCHANGED <<routing_vars, trigger_vars, group_vars, manager_vars, io_vars>>
    \/ \E t \in Threads :
           DeviceReturn(t) /\ UNCHANGED <<routing_vars, trigger_vars, group_vars, manager_vars, io_vars>>

SpecDevice ==
    /\ Init
    /\ [][NextDevice]_vars
    /\ \A t \in Threads :
           /\ WF_vars(DeviceLock(t) /\ UNCHANGED <<routing_vars, trigger_vars, group_vars, manager_vars, io_vars>>)
           /\ WF_vars(DeviceInner(t) /\ UNCHANGED <<routing_vars, trigger_vars, group_vars, manager_vars, io_vars>>)
           /\ WF_vars(DeviceReturn(t) /\ UNCHANGED <<routing_vars, trigger_vars, group_vars, manager_vars, io_vars>>)

\* Two MSI groups of one manager, created one after the other: the first
\* ends at the top of the GSI space and the second has one source, either
\* the last GSI of the first group or a GSI below the first group.
MsiLists(n) == {[i \in 1..n |-> MsiCfg(0, 65, 1)]}
MsiUpdate == MsiCfg(1, 66, 2)

InitMsiGroups ==
    /\ InitBus /\ kind = "pio"
    /\ InitializedRouting
    /\ InitThreads
    /\ InitManager
    /\ InitIo
    /\ \E count \in 1..MaxCount : \E b \in {MAX_IRQS - 1, MAX_IRQS - MaxCount - 1} :
           /\ gkind = "msi" /\ gbase = MAX_IRQS - count /\ gcount = count
           /\ status = 0
           /\ irqfd = [i \in 0..(count - 1) |-> 0]
           /\ gop = "new"
           /\ garg = [index |-> 0, flags |-> 0]
           /\ gret = "Ok"
           /\ gpre = NoGPre
           /\ notifiers = {}
           /\ msi_configs = [i \in 0..(count - 1) |-> DefaultMsi]
           /\ enabled = <<>>
           /\ gphase = "none"
           /\ peer = PeerGroup(b, 1)

NextMsiGroups ==
    \/ \E cs \in MsiLists(gcount) : \E fail \in 0..(gcount + 1) :
           EnableMsi(cs, fail) /\ UNCHANGED <<bus_vars, thread_vars, manager_vars, io_vars>>
    \/ \E fail \in 0..(gcount + 1) :
           DisableMsi(fail) /\ UNCHANGED <<bus_vars, thread_vars, manager_vars, io_vars>>
    \/ \E i \in 0..(gcount - 1) : \E ok \in BOOLEAN :
           UpdateMsi(i, MsiUpdate, ok) /\ UNCHANGED <<bus_vars, thread_vars, manager_vars, io_vars>>
    \/ \E cs \in MsiLists(peer.count) : \E fail \in 0..(peer.count + 1) :
           PeerEnable(cs, fail) /\ UNCHANGED <<bus_vars, thread_vars, manager_vars, io_vars>>
    \/ \E fail \in 0..(peer.count + 1) :
           PeerDisable(fail) /\ UNCHANGED <<bus_vars, thread_vars, manager_vars, io_vars>>
    \/ \E i \in 0..(peer.count - 1) : \E ok \in BOOLEAN :
           PeerUpdate(i, MsiUpdate, ok) /\ UNCHANGED <<bus_vars, thread_vars, manager_vars, io_vars>>

SpecMsiGroups == InitMsiGroups /\ [][NextMsiGroups]_vars

\* ------------------------------------------------------------- properties
\* The addresses of a range, as a set of integers.
Cells(r) == r.base..(r.base + r.size - 1)

\* The stored ranges that contain address a.
Containing(b, a) == {r \in keys(b) : a \in Cells(r)}

\* The stored ranges that cover the whole access [a, a + n).
Covering(b, a, n) == {r \in keys(b) : r.base <= a /\ a + n - 1 <= r.base + r.size - 1}

\* C1: after any sequence of register and deregister calls, starting from the
\* empty bus, no two distinct stored ranges overlap.
C1_NoOverlap ==
    \A r1 \in keys(bus) : \A r2 \in keys(bus) :
        r1 # r2 =>
            \/ r1.base + r1.size - 1 < r2.base
            \/ r2.base + r2.size - 1 < r1.base

\* Two ranges are stored, after a deregister made room for one of them.
C1_Witness ==
    /\ Cardinality(DOMAIN bus) >= 2
    /\ op = "register" /\ ret.ok
    /\ pre.age = 0 /\ pre.bus # EmptyBus

\* C2: register returns DeviceOverlap exactly when the range shares an
\* address with a stored range, and then leaves the bus unchanged; otherwise
\* it stores (range, device) and returns Ok.
C2_Register ==
    [][op' = "register" =>
        LET r == arg'.range
            d == arg'.dev
        IN  IF \E s \in keys(bus) : Cells(r) \cap Cells(s) # {}
            THEN ret' = Err("DeviceOverlap") /\ bus' = bus
            ELSE /\ ret' = OkUnit
                 /\ DOMAIN bus' = DOMAIN bus \cup {r.base}
                 /\ bus'[r.base] = [size |-> r.size, dev |-> d]
                 /\ \A b \in DOMAIN bus : bus'[b] = bus[b]]_vars

\* A register of a range that starts below a stored range of the same
\* device and contains it was rejected.
C2_Witness ==
    /\ op = "register" /\ ret = Err("DeviceOverlap")
    /\ \E b \in DOMAIN bus :
          /\ arg.range.base < b
          /\ b + bus[b].size - 1 <= arg.range.base + arg.range.size - 1
          /\ bus[b].dev = arg.dev

\* C3 as stated: check_access(addr, len) succeeds iff some registered range r
\* has r.base <= addr and addr + len - 1 <= r.last and len fits the offset
\* type.
C3_Original ==
    op = "check_access" =>
        (ret.ok <=> /\ Covering(bus, arg.addr, arg.len) # {}
                    /\ arg.len <= MaxAddr(kind))

\* C3 amended: check_access(addr, len) succeeds iff len >= 1, len fits the
\* offset type and some registered range r has r.base <= addr and
\* addr + len - 1 <= r.last; it then returns that range and its device.  An
\* access that runs from one range into an adjacent one is DeviceNotFound.
C3_CheckAccess ==
    op = "check_access" =>
        LET cov == Covering(bus, arg.addr, arg.len)
            fits == arg.len >= 1 /\ arg.len <= MaxAddr(kind)
        IN  /\ ret.ok <=> (fits /\ cov # {})
            /\ ret.ok => /\ ret.range \in cov
                         /\ ret.dev = bus[ret.range.base].dev
            /\ (fits /\ cov = {} /\ arg.addr + arg.len - 1 <= MaxAddr(kind))
                   => ret = Err("DeviceNotFound")

\* An access that starts in one range and ends in the adjacent range of the
\* same device was rejected.
C3_Witness ==
    /\ op = "check_access" /\ ret = Err("DeviceNotFound")
    /\ \E r1 \in keys(bus) : \E r2 \in keys(bus) :
          /\ r1.base + r1.size = r2.base
          /\ bus[r1.base].dev = bus[r2.base].dev
          /\ arg.addr \in Cells(r1)
          /\ arg.addr + arg.len - 1 \in Cells(r2)

\* C4: device(a) returns the unique stored range that contains a, with its
\* device, and nothing when no stored range contains a.
C4_Device ==
    op = "device" =>
        LET c == Containing(bus, arg.addr)
        IN  IF c = {} THEN ~ret.ok
            ELSE /\ Cardinality(c) = 1
                 /\ ret.ok
                 /\ ret.range \in c
                 /\ ret.dev = bus[ret.range.base].dev

\* A lookup above the base of a range hit it, with a range stored below it.
C4_Witness ==
    /\ op = "device" /\ ret.ok
    /\ arg.addr > ret.range.base
    /\ \E b \in DOMAIN bus : b < ret.range.base

\* C5: a read or write at addr with a buffer of n bytes invokes the device of
\* the range r that check_access returns exactly once, with
\* (r.base, addr - r.base, buffer), and returns Ok; when check_access fails no
\* device is invoked and its error is returned.
C5_Dispatch ==
    op \in Fns(kind) =>
        LET cov == Covering(bus, arg.addr, arg.len)
            fits == arg.len >= 1 /\ arg.len <= MaxAddr(kind)
        IN  IF fits /\ cov # {}
            THEN /\ ret = OkUnit
                 /\ Len(calls) = 1
                 /\ \E r \in cov :
                       calls[1] = Call(bus[r.base].dev, op, r.base,
                                       arg.addr - r.base, arg.len)
            ELSE /\ calls = <<>>
                 /\ ret = check_access(kind, bus, arg.addr, arg.len)
                 /\ ~ret.ok

\* A write was dispatched at a non-zero offset into a range with a non-zero
\* base.
C5_Witness ==
    /\ op = "mmio_write" /\ ret.ok
    /\ Len(calls) = 1
    /\ calls[1].base > 0 /\ calls[1].offset > 0

\* Same result of device and check_access for every address and length.
ObsEq(k, b1, b2) ==
    \A a \in Addrs(k) :
        /\ device(k, b1, a) = device(k, b2, a)
        /\ \A n \in Lens : check_access(k, b1, a, n) = check_access(k, b2, a, n)

\* C6: deregister(addr) right after a successful register(r, d), for any addr
\* in r, returns exactly (r, d) and leaves the bus observationally equal to
\* the bus before the register.
C6_RoundTrip ==
    (op = "deregister" /\ pre.age = 1 /\ arg.addr \in Cells(pre.range)) =>
        /\ ret.ok
        /\ ret.range = pre.range
        /\ ret.dev = pre.dev
        /\ ObsEq(kind, bus, pre.bus)
        /\ bus = pre.bus

\* A range was registered on a non-empty bus and deregistered at an address
\* above its base.
C6_Witness ==
    /\ op = "deregister" /\ pre.age = 1
    /\ arg.addr \in Cells(pre.range)
    /\ arg.addr > pre.range.base
    /\ pre.bus # EmptyBus

\* C7: check_access never modifies the bus; it fails with
\* InvalidAccessLength(len) when len does not fit the offset type, otherwise
\* with InvalidRange when len = 0 or addr + len - 1 overflows, otherwise with
\* DeviceNotFound when no single registered range covers the access.
C7_Classify ==
    [][op' = "check_access" =>
        LET a == arg'.addr
            n == arg'.len
        IN  /\ bus' = bus
            /\ IF n > MaxAddr(kind) THEN ret' = InvalidAccessLength(n)
               ELSE IF n = 0 \/ a + n - 1 > MaxAddr(kind)
                    THEN ret' = Err("InvalidRange")
               ELSE IF Covering(bus, a, n) = {}
                    THEN ret' = Err("DeviceNotFound")
               ELSE ret'.ok]_vars

\* A length that does not fit a PIO offset was rejected on a PIO bus whose
\* range at that address is registered.
C7_Witness ==
    /\ kind = "pio"
    /\ op = "check_access"
    /\ ret = InvalidAccessLength(arg.len)
    /\ Containing(bus, arg.addr) # {}

\* C8: deregister at an address no stored range contains returns empty and
\* leaves the bus unchanged; so does a second deregister at the address of a
\* successful one.
C8_DeregisterMiss ==
    [][op' = "deregister" =>
        /\ Containing(bus, arg'.addr) = {} => (~ret'.ok /\ bus' = bus)
        /\ again' => (~ret'.ok /\ bus' = bus)]_vars

\* A second deregister ran at the address of a successful one, with other
\* ranges still stored.
C8_Witness ==
    /\ op = "deregister" /\ again
    /\ bus # EmptyBus

\* The positions of a batch whose entry add rejects against table m.
Invalid(es) == {i \in 1..Len(es) : es[i].gsi >= MAX_IRQS}
Present(m, es) == {i \in 1..Len(es) : hash_key(es[i]) \in DOMAIN m}
Min(S) == CHOOSE i \in S : \A j \in S : i <= j
Max(S) == CHOOSE i \in S : \A j \in S : j <= i
BatchKeys(es) == {hash_key(es[i]) : i \in 1..Len(es)}

\* C9: after every successful initialize, add, remove or modify, the routing
\* set last handed to the backend is exactly the table: the header count is
\* the number of table entries, the array holds one entry per key and
\* nothing else, and the operation made a single backend call.
C9_CommittedIsTable ==
    (rop \in {"initialize", "add", "remove", "modify"} /\ rret = "Ok") =>
        /\ ncalls = 1
        /\ committed.set
        /\ committed.flags = 0
        /\ committed.nr = Cardinality(DOMAIN routes)
        /\ BagCardinality(committed.entries) = committed.nr
        /\ \A k \in DOMAIN routes :
               /\ BagIn(routes[k], committed.entries)
               /\ CopiesIn(routes[k], committed.entries) =
                      Cardinality({x \in DOMAIN routes : routes[x] = routes[k]})
        /\ \A e \in BagToSet(committed.entries) :
               \E k \in DOMAIN routes : routes[k] = e

\* C9 witness: a route of the initialized table, with an added MSI route
\* beside it, has been modified and the table committed.
C9_Witness ==
    /\ rop = "modify" /\ rret = "Ok"
    /\ Cardinality(DOMAIN routes) > 38
    /\ routes[hash_key(rarg[1])] = rarg[1]
    /\ rarg[1].type_ = KVM_IRQ_ROUTING_IRQCHIP

\* C10 as stated: add fails with EINVAL (InvalidConfiguration) when some
\* entry has GSI >= MAX_IRQS and with EEXIST (Duplicate) when some entry's
\* key is already in the table, leaving table and backend alone; otherwise
\* every key of the batch holds an entry of the batch and the table is
\* committed once.
C10_Original ==
    [][rop' = "add" =>
        LET es == rarg' IN
        /\ Invalid(es) # {} => rret' = "EINVAL"
        /\ Present(routes, es) # {} => rret' = "EEXIST"
        /\ (Invalid(es) # {} \/ Present(routes, es) # {}) =>
               /\ routes' = routes
               /\ committed' = committed
               /\ ncalls' = 0
        /\ (Invalid(es) = {} /\ Present(routes, es) = {}) =>
               /\ rret' \in {"Ok", "backend"}
               /\ ncalls' = 1
               /\ DOMAIN routes' = DOMAIN routes \cup BatchKeys(es)
               /\ \A k \in BatchKeys(es) :
                      \E i \in 1..Len(es) : routes'[k] = es[i]
               /\ committed'.entries = values(routes')
    ]_vars

\* C10: add fails with the error of the first entry, in batch order, that
\* has GSI >= MAX_IRQS (EINVAL) or whose key is already in the table
\* (EEXIST); no entry is inserted, the backend is not called and the
\* routing it holds stays.  When no entry is rejected, the entries are
\* inserted in batch order (the last entry of a key stays), every other
\* route is kept, and the whole table is handed to the backend once.
C10_Add ==
    [][rop' = "add" =>
        LET es == rarg'
            bad == Invalid(es) \cup Present(routes, es)
        IN  IF bad # {}
            THEN /\ rret' = IF Min(bad) \in Invalid(es) THEN "EINVAL" ELSE "EEXIST"
                 /\ routes' = routes
                 /\ committed' = committed
                 /\ ncalls' = 0
            ELSE /\ rret' \in {"Ok", "backend"}
                 /\ ncalls' = 1
                 /\ DOMAIN routes' = DOMAIN routes \cup BatchKeys(es)
                 /\ \A k \in DOMAIN routes : routes'[k] = routes[k]
                 /\ \A k \in BatchKeys(es) :
                        routes'[k] =
                            es[Max({i \in 1..Len(es) : hash_key(es[i]) = k})]
                 /\ committed'.nr = Cardinality(DOMAIN routes')
                 /\ BagToSet(committed'.entries) =
                        {routes'[k] : k \in DOMAIN routes'}
    ]_vars

\* C10 witness: add has rejected a batch for a key already in the table
\* although a later entry of the batch has GSI >= MAX_IRQS.
C10_Witness ==
    /\ rop = "add" /\ rret = "EEXIST"
    /\ Len(rarg) = 2
    /\ hash_key(rarg[1]) \in DOMAIN routes
    /\ rarg[2].gsi >= MAX_IRQS
    /\ ncalls = 0

\* The routing set a kvm_irq_routing carries: its header and its entries.
Content(c) == [nr |-> c.nr, flags |-> c.flags, entries |-> c.entries]

\* C11 as stated: modify succeeds iff the key of the entry is in the table;
\* on success only that entry's payload is replaced and the table is
\* committed; otherwise it returns ENOENT (NotFound), the table is unchanged
\* and nothing is committed.
C11_Original ==
    [][rop' = "modify" =>
        LET e == rarg'[1]
            k == hash_key(e)
        IN  /\ rret' = "Ok" <=> k \in DOMAIN routes
            /\ rret' = "Ok" =>
                   /\ routes' = [routes EXCEPT ![k] = e]
                   /\ ncalls' = 1
                   /\ Content(committed') = Content(set_routing(routes'))
            /\ rret' # "Ok" =>
                   /\ rret' = "ENOENT"
                   /\ routes' = routes
                   /\ committed' = committed
                   /\ ncalls' = 0
    ]_vars

\* C11: modify returns ENOENT (NotFound), leaves the table unchanged and
\* commits nothing iff no entry with the key of the given one is in the
\* table.  When the key is present only that entry's payload is replaced and
\* the whole table is handed to the backend once; modify then returns Ok, or
\* the backend's error when the backend rejects the commit, and the replaced
\* payload stays in the table in both cases.
C11_Modify ==
    [][rop' = "modify" =>
        LET e == rarg'[1]
            k == hash_key(e)
        IN  IF k \notin DOMAIN routes
            THEN /\ rret' = "ENOENT"
                 /\ routes' = routes
                 /\ committed' = committed
                 /\ ncalls' = 0
            ELSE /\ rret' \in {"Ok", "backend"}
                 /\ DOMAIN routes' = DOMAIN routes
                 /\ routes'[k] = e
                 /\ \A x \in DOMAIN routes \ {k} : routes'[x] = routes[x]
                 /\ ncalls' = 1
                 /\ committed'.nr = Cardinality(DOMAIN routes')
                 /\ BagToSet(committed'.entries) =
                        {routes'[x] : x \in DOMAIN routes'}
    ]_vars

\* C11 witness: the backend has rejected the commit of a modify whose key is
\* in the table; the new payload is stored.
C11_Witness ==
    /\ rop = "modify" /\ rret = "backend"
    /\ hash_key(rarg[1]) \in DOMAIN routes
    /\ routes[hash_key(rarg[1])] = rarg[1]
    /\ rarg[1].type_ = KVM_IRQ_ROUTING_MSI

\* C12: a remove of the batch of a successful add, right after it, leaves
\* the table and the routing handed to the backend as they were before the
\* add; every remove drops exactly the stored keys of its batch (a key that
\* is not present removes nothing) and hands the table to the backend once.
C12_AddRemove ==
    [][rop' = "remove" =>
        /\ ncalls' = 1
        /\ DOMAIN routes' = DOMAIN routes \ BatchKeys(rarg')
        /\ \A k \in DOMAIN routes' : routes'[k] = routes[k]
        /\ Content(committed') = Content(set_routing(routes'))
        /\ rpre'.age = 1 =>
               /\ routes' = rpre'.routes
               /\ Content(committed') = Content(rpre'.committed)
    ]_vars

\* C12 witness: a batch of two entries added to the initialized table has
\* been removed again.
C12_Witness ==
    /\ rop = "remove" /\ rpre.age = 1
    /\ Len(rarg) = 2 /\ rarg[1] # rarg[2]
    /\ Cardinality(DOMAIN routes) >= 37

\* The bits of a word, as a set of bit positions.
Bits(w) == {b \in 0..(UsizeBits - 1) : (w \div Pow2(b)) % 2 = 1}

\* C13: on a legacy group with status word s, trigger(0, f) leaves the
\* status word s OR f and raises the notifier counter by exactly 1; ack(0, g)
\* leaves the status word s AND NOT g (the bits outside g keep their value)
\* and does not touch the notifier.
C13_TriggerAck ==
    [][gkind = "legacy" /\ garg'.index = 0 =>
        /\ gop' = "trigger" =>
               /\ Bits(status') = Bits(status) \cup Bits(garg'.flags)
               /\ flags_of(status') = status'
               /\ irqfd'[0] = irqfd[0] + 1
               /\ gret' = "Ok"
        /\ gop' = "ack" =>
               /\ Bits(status') = Bits(status) \ Bits(garg'.flags)
               /\ irqfd' = irqfd
               /\ gret' = "Ok"
    ]_vars

\* C13 witness: after trigger(0, 3) and ack(0, 2) bit 1 is cleared and bit 0
\* is still set, and the notifier was written once.
C13_Witness ==
    /\ gkind = "legacy" /\ gop = "ack" /\ garg = [index |-> 0, flags |-> 2]
    /\ status = 1
    /\ irqfd[0] = 1

\* C14: on a legacy group, trigger(0, f) followed directly by ack(0, f)
\* leaves the status word as it was before the trigger.
C14_Original ==
    (gkind = "legacy" /\ gop = "ack" /\ gpre.age = 1) => status = gpre.status

\* C14: on a legacy group, trigger(0, f) followed directly by ack(0, f)
\* leaves the status word s AND NOT f, where s is the word before the
\* trigger: the bits of f that were already set are cleared too, and the
\* word is s again exactly when s and f share no bit.
C14_TriggerThenAck ==
    (gkind = "legacy" /\ gop = "ack" /\ gpre.age = 1) =>
        /\ Bits(status) = Bits(gpre.status) \ Bits(gpre.flags)
        /\ status = gpre.status <=> Bits(gpre.status) \cap Bits(gpre.flags) = {}

\* C14 witness: a trigger of a flag that was already pending, followed by
\* its ack, has cleared the flag.
C14_Witness ==
    /\ gkind = "legacy" /\ gop = "ack" /\ gpre.age = 1
    /\ gpre.status = 3 /\ gpre.flags = 1
    /\ status = 2

\* The bits of the status word after the calls of a sequence are applied,
\* one after the other in the order p, to a word with the bits w.
RECURSIVE Sequential(_, _, _, _)
Sequential(w, cs, p, i) ==
    IF i > Len(cs) THEN w
    ELSE Sequential(IF cs[p[i]].op = "trigger"
                    THEN w \cup Bits(cs[p[i]].flags)
                    ELSE w \ Bits(cs[p[i]].flags),
                    cs, p, i + 1)

Triggers(cs) == {i \in 1..Len(cs) : cs[i].op = "trigger"}

\* C15: once every concurrent trigger and ack call on a legacy group has
\* returned, the status word is the result of the same OR and AND-NOT
\* updates in some sequential order, and the notifier counter has grown by
\* the number of trigger calls.
C15_Linearizable ==
    (\A t \in Threads : pc[t] = "idle") =>
        /\ \E p \in Permutations(1..Len(issued)) :
               Bits(status) = Sequential({}, issued, p, 1)
        /\ irqfd[0] = Cardinality(Triggers(issued))

\* C15 witness: two triggers were in flight at the same time, an ack was
\* issued too, and all three calls have returned.
C15_Witness ==
    /\ \A t \in Threads : pc[t] = "idle"
    /\ Len(issued) = 3
    /\ issued[1].op = "trigger" /\ issued[2].op = "trigger"
    /\ issued[3].op = "ack"
    /\ irqfd[0] = 2
    /\ status # 0

\* The sources of a generic group that are enabled.
EnabledSources(en) == {i \in DOMAIN en : en[i]}

\* C16: for every kind of group, enable(configs) with configs.len() # len()
\* fails, installs no route, registers no notifier and enables no source.
C16_LengthMismatch ==
    [][(gop' = "enable" /\ Len(garg'.configs) # gcount) =>
        /\ gret' # "Ok"
        /\ routes' = routes
        /\ notifiers' = notifiers
        /\ EnabledSources(enabled') = EnabledSources(enabled)
    ]_vars

\* C16 failing case: enable of a generic group of two interrupts with a
\* single configuration has returned Ok and enabled the first interrupt.
C16_Witness ==
    /\ gkind = "generic" /\ gcount = 2
    /\ gop = "enable" /\ garg.configs = <<0>>
    /\ gret = "Ok"
    /\ EnabledSources(enabled) = {0}

\* C17: when enable fails, none of the notifiers the call registered is
\* still registered and none of the sources it enabled is still enabled.
C17_Rollback ==
    [][(gop' = "enable" /\ gret' # "Ok") =>
        /\ notifiers' \subseteq notifiers
        /\ EnabledSources(enabled') \subseteq EnabledSources(enabled)
    ]_vars

\* C17 failing case: enable of an MSI group of two sources has failed at the
\* registration of the second notifier; the first notifier is registered
\* and both routes are in the table.
C17_Witness ==
    /\ gkind = "msi" /\ gcount = 2
    /\ gop = "enable" /\ gret = "backend"
    /\ notifiers = {0}
    /\ \A i \in Sources : <<0, KVM_IRQ_ROUTING_MSI, gbase + i>> \in DOMAIN routes

\* The configurations of a call whose variant is not the kind of the group.
Mismatched(a) ==
    IF gop' = "enable"
    THEN {i \in 1..Len(a.configs) : a.configs[i].variant # gkind}
    ELSE IF a.config.variant # gkind THEN {1} ELSE {}

\* C18: enable and update of a legacy or MSI group fail with EINVAL
\* (InvalidConfiguration) whenever a configuration of the other variant is
\* supplied, and then change no route and register no notifier.
C18_VariantMismatch ==
    [][(gkind \in {"legacy", "msi"} /\ gop' \in {"enable", "update"}
            /\ Mismatched(garg') # {}) =>
        /\ gret' = "EINVAL"
        /\ routes' = routes
        /\ notifiers' = notifiers
    ]_vars

\* C18 failing case: enable of a legacy group with an MSI configuration has
\* returned Ok and registered the notifier.
C18_Witness ==
    /\ gkind = "legacy"
    /\ gop = "enable" /\ Len(garg.configs) = 1
    /\ garg.configs[1].variant = "msi"
    /\ gret = "Ok"
    /\ notifiers = {0}

C20_Update ==
    [][(gkind = "msi" /\ gphase = "enabled" /\ gop' = "update") =>
        LET i == garg'.index
            c == garg'.config
            k == <<0, KVM_IRQ_ROUTING_MSI, gbase + i>>
        IN  /\ (i < gcount /\ c.variant = "msi") =>
                   /\ DOMAIN routes' = DOMAIN routes
                   /\ routes'[k] = [gsi |-> gbase + i,
                                    type_ |-> KVM_IRQ_ROUTING_MSI,
                                    u |-> <<c.low_addr, c.high_addr, c.data>>]
                   /\ \A x \in DOMAIN routes \ {k} : routes'[x] = routes[x]
                   /\ ncalls' = 1
                   /\ committed'.nr = Cardinality(DOMAIN routes')
                   /\ BagToSet(committed'.entries) =
                          {routes'[x] : x \in DOMAIN routes'}
            /\ i >= gcount =>
                   /\ gret' # "Ok"
                   /\ routes' = routes
                   /\ committed' = committed
    ]_vars

\* C20 witness: the second source of an enabled MSI group was updated; its
\* route carries the new address and data and the route of the first source
\* the ones enable installed.
C20_Witness ==
    /\ gkind = "msi" /\ gcount = 2 /\ gphase = "enabled"
    /\ gop = "update" /\ gret = "Ok" /\ garg.index = 1
    /\ routes[<<0, KVM_IRQ_ROUTING_MSI, gbase + 1>>].u = <<66, 1, 2>>
    /\ routes[<<0, KVM_IRQ_ROUTING_MSI, gbase>>].u = <<65, 0, 1>>

\* C21: trigger(i, flags) and ack(i, flags) return an error and change
\* neither the status word nor any notifier when i >= len() or when the
\* group is MSI and flags # 0; trigger(i, 0) with i < len() on an MSI group
\* writes 1 to notifier i only and returns Ok; ack(i, 0) with i < len() on an
\* MSI group returns Ok and changes nothing.
C21_IndexAndFlags ==
    [][gop' \in {"trigger", "ack"} =>
        LET i == garg'.index
            f == garg'.flags
        IN  /\ (i >= gcount \/ (gkind = "msi" /\ f # 0)) =>
                   /\ gret' # "Ok"
                   /\ status' = status
                   /\ irqfd' = irqfd
            /\ (gkind = "msi" /\ i < gcount /\ f = 0 /\ gop' = "trigger") =>
                   /\ gret' = "Ok"
                   /\ status' = status
                   /\ irqfd'[i] = irqfd[i] + 1
                   /\ \A j \in Sources \ {i} : irqfd'[j] = irqfd[j]
            /\ (gkind = "msi" /\ i < gcount /\ f = 0 /\ gop' = "ack") =>
                   /\ gret' = "Ok"
                   /\ status' = status
                   /\ irqfd' = irqfd
    ]_vars

\* C21 witness: on an MSI group of two sources only the notifier of source 1
\* has been written, and the last call, a trigger with a non-zero flag, was
\* rejected.
C21_Witness ==
    /\ gkind = "msi" /\ gcount = 2
    /\ irqfd[0] = 0 /\ irqfd[1] = 1
    /\ gop = "trigger" /\ garg = [index |-> 1, flags |-> 1]
    /\ gret = "EINVAL"

\* The number a u32 stands for is below n (n < 2^16).
Below(x, n) == x.hi = 0 /\ x.lo < n

C23_MsiBounds ==
    [][/\ (mop' = "create_group" /\ marg'.ty = "msi" /\ mret' = "Ok") =>
              /\ ~Below(marg'.count, 1)
              /\ u32_le(marg'.count, max_msi_irqs)
              /\ marg'.base.hi = 0 /\ marg'.count.hi = 0
              /\ marg'.base.lo + marg'.count.lo <= MAX_IRQS
              /\ mgroup'.count = marg'.count /\ mgroup'.base = marg'.base
       /\ (mop' = "create_group" /\ mret' # "Ok") => groups' = groups
       /\ mop' = "set_max_msi_irqs" => groups' = groups
    ]_vars

\* C23 failing case: with the maximum set to u32::MAX, an MSI group of
\* u32::MAX sources at base 1 was returned and stored.
C23_Witness ==
    /\ mop = "create_group" /\ mret = "Ok"
    /\ marg = [ty |-> "msi", base |-> [hi |-> 0, lo |-> 1], count |-> U32Max]
    /\ max_msi_irqs = U32Max
    /\ groups[marg.base] = mgroup
    /\ mgroup.count = U32Max

\* A pin route: GSI gsi is wired to pin pin of interrupt controller chip
\* (the third word of the union is left at its default, 0).
PinRoute(gsi, chip, pin) ==
    [gsi |-> gsi, type_ |-> KVM_IRQ_ROUTING_IRQCHIP, u |-> <<chip, pin, 0>>]

\* The default routes of x86.
MasterRoutes == {PinRoute(i, KVM_IRQCHIP_PIC_MASTER, i) : i \in (0..7) \ {2}}
SlaveRoutes == {PinRoute(i, KVM_IRQCHIP_PIC_SLAVE, i - 8) : i \in 8..15}
IoapicRoutes ==
    {PinRoute(0, KVM_IRQCHIP_IOAPIC, 2)}
        \cup {PinRoute(i, KVM_IRQCHIP_IOAPIC, i) : i \in (1..23) \ {2}}
DefaultRoutes == MasterRoutes \cup SlaveRoutes \cup IoapicRoutes

\* C24: a successful initialize on an empty routing table leaves exactly the
\* 38 default pin routes in the table (7 of the master PIC, 8 of the slave
\* PIC, 23 of the I/O APIC), each under a key of its own, and the routing set
\* handed to the backend holds exactly these 38 entries.
C24_Initialize ==
    [][(routes = EmptyRoutes /\ rop' = "initialize" /\ rret' = "Ok") =>
        /\ Cardinality(MasterRoutes) = 7
        /\ Cardinality(SlaveRoutes) = 8
        /\ Cardinality(IoapicRoutes) = 23
        /\ Cardinality(DOMAIN routes') = 38
        /\ {routes'[k] : k \in DOMAIN routes'} = DefaultRoutes
        /\ Cardinality(DefaultRoutes) = 38
        /\ \A k \in DOMAIN routes' : k = hash_key(routes'[k])
        /\ committed'.set
        /\ committed'.nr = 38
        /\ BagCardinality(committed'.entries) = 38
        /\ BagToSet(committed'.entries) = DefaultRoutes
    ]_vars

\* C24 witness: initialize has succeeded; GSI 1 is routed both to pin 1 of
\* the master PIC and to pin 1 of the I/O APIC, and GSI 0 to pin 2 of the
\* I/O APIC.
C24_Witness ==
    /\ rop = "initialize" /\ rret = "Ok"
    /\ Cardinality(DOMAIN routes) = 38
    /\ \E k1, k2 \in DOMAIN routes :
           /\ k1 # k2
           /\ routes[k1] = PinRoute(1, KVM_IRQCHIP_PIC_MASTER, 1)
           /\ routes[k2] = PinRoute(1, KVM_IRQCHIP_IOAPIC, 1)
    /\ \E k \in DOMAIN routes : routes[k] = PinRoute(0, KVM_IRQCHIP_IOAPIC, 2)

\* C25: destroy_group(group) returns Ok and removes the mapping of the
\* group's base from the manager and nothing else; the routing table, the
\* routing set the backend holds, the registered notifiers and the state of
\* the group are the same before and after, also when the group is enabled.
\* (A step that changes the state of the manager and leaves destroy_group
\* as its last call is a destroy_group call.)
C25_Destroy ==
    [][(mop' = "destroy_group" /\ manager_vars' # manager_vars) =>
        /\ mret' = "Ok"
        /\ groups' = [b \in DOMAIN groups \ {marg'.group.base} |-> groups[b]]
        /\ max_msi_irqs' = max_msi_irqs
        /\ routes' = routes
        /\ committed' = committed
        /\ ncalls' = ncalls
        /\ notifiers' = notifiers
        /\ gphase' = gphase
        /\ status' = status /\ irqfd' = irqfd
    ]_vars

\* C25 witness: an enabled MSI group of two sources has been destroyed: the
\* manager holds no group, both notifiers are still registered and both
\* routes are still in the table.
C25_Witness ==
    /\ mop = "destroy_group" /\ mret = "Ok"
    /\ gkind = "msi" /\ gcount = 2 /\ gphase = "enabled"
    /\ groups = NoGroups
    /\ notifiers = {0, 1}
    /\ \A i \in Sources : <<0, KVM_IRQ_ROUTING_MSI, gbase + i>> \in DOMAIN routes

\* The calls that register a resource set, and the kinds of range each of
\* them registers.
RegisterCalls ==
    {"register_mmio_resources", "register_pio_resources", "register_resources"}
KindsOf(call) ==
    IF call = "register_mmio_resources" THEN {"mmio"}
    ELSE IF call = "register_pio_resources" THEN {"pio"}
    ELSE {"pio", "mmio"}

\* The range a range resource asks for and its positions in a resource set.
RangeOf(res) == [base |-> res.base, size |-> res.size]
RangesAt(rs, k) == {j \in 1..Len(rs) : rs[j].tag = k}

\* The range resources of the call that were handled before the one at
\* position k failed: the earlier ones of the same kind and, when a PIO range
\* of register_resources failed, every MMIO range.
HandledBefore(call, rs, k) ==
    {j \in 1..Len(rs) :
        /\ rs[j].tag \in KindsOf(call)
        /\ \/ rs[j].tag = rs[k].tag /\ j < k
           \/ rs[j].tag = "mmio" /\ rs[k].tag = "pio"}

\* Every entry of bus b is an entry of bus c.
Kept(b, c) == \A x \in DOMAIN b : x \in DOMAIN c /\ c[x] = b[x]

\* C26: when a registration fails inside register_mmio_resources,
\* register_pio_resources or register_resources, the call returns the
\* DeviceOverlap error of the range that failed, which overlaps a range of
\* its bus; the ranges the call registered before it are registered to the
\* device, every range that was registered before the call still is, and no
\* other range has been added to either bus.
C26_BestEffort ==
    [][(ioop' \in RegisterCalls /\ ioret'.err \notin {"Ok", "panic"}) =>
        LET rs == ioarg'.resources
            k == ioret'.at
            done == HandledBefore(ioop', rs, k)
        IN  /\ k \in 1..Len(rs)
            /\ rs[k].tag \in KindsOf(ioop')
            /\ ioret'.err = "DeviceOverlap"
            /\ \E r \in keys(IF rs[k].tag = "pio" THEN pio_bus' ELSE mmio_bus') :
                   Cells(r) \cap Cells(RangeOf(rs[k])) # {}
            /\ \A j \in done :
                   LET b == IF rs[j].tag = "pio" THEN pio_bus' ELSE mmio_bus'
                   IN  /\ rs[j].base \in DOMAIN b
                       /\ b[rs[j].base] = [size |-> rs[j].size, dev |-> ioarg'.dev]
            /\ Kept(pio_bus, pio_bus')
            /\ Kept(mmio_bus, mmio_bus')
            /\ DOMAIN pio_bus' \ DOMAIN pio_bus \subseteq
                   {rs[j].base : j \in done \cap RangesAt(rs, "pio")}
            /\ DOMAIN mmio_bus' \ DOMAIN mmio_bus \subseteq
                   {rs[j].base : j \in done \cap RangesAt(rs, "mmio")}
    ]_vars

\* C26 witness: register_resources of a set that names the same MMIO range
\* twice has failed at the second one, and the first one is registered.
C26_Witness ==
    /\ ioop = "register_resources"
    /\ ioarg.resources = <<MmioAddressRange(0, 2), MmioAddressRange(0, 2)>>
    /\ ioret.err = "DeviceOverlap" /\ ioret.at = 2
    /\ 0 \in DOMAIN mmio_bus
    /\ mmio_bus[0] = [size |-> 2, dev |-> ioarg.dev]

\* C27: when register_resources fails at the range resource at position k,
\* every PIO or MMIO range resource at a position before k is registered on
\* its bus and none at a position after k has been added to its bus.
C27_GivenOrder ==
    [][(ioop' = "register_resources" /\ ioret'.err \notin {"Ok", "panic"}) =>
        LET rs == ioarg'.resources
            k == ioret'.at
        IN  /\ \A j \in 1..(k - 1) :
                   /\ rs[j].tag = "pio" => rs[j].base \in DOMAIN pio_bus'
                   /\ rs[j].tag = "mmio" => rs[j].base \in DOMAIN mmio_bus'
            /\ DOMAIN pio_bus' \ DOMAIN pio_bus \subseteq
                   {rs[j].base : j \in RangesAt(rs, "pio") \cap 1..(k - 1)}
            /\ DOMAIN mmio_bus' \ DOMAIN mmio_bus \subseteq
                   {rs[j].base : j \in RangesAt(rs, "mmio") \cap 1..(k - 1)}
    ]_vars

\* C27 failing case: register_resources of a PIO range followed by an MMIO
\* range has failed at the MMIO range, at position 2, and the PIO range at
\* position 1 is not registered.
C27_Witness ==
    /\ ioop = "register_resources"
    /\ ioarg.resources = <<PioAddressRange(0, 1), MmioAddressRange(0, 2)>>
    /\ ioret.err = "DeviceOverlap" /\ ioret.at = 2
    /\ pio_bus = EmptyBus

\* The ranges of bus b that are no longer in bus c.
Removed(b, c) == {Range(x, b[x].size) : x \in DOMAIN b \ DOMAIN c}

\* C28: deregister_resources returns the number of ranges it removed from
\* the two buses; it adds and changes no entry; from each bus it removes at
\* most as many ranges as the set has range resources of that kind, each of
\* them a range that holds the base of such a resource; a set without range
\* resources removes nothing and returns 0.
C28_DeregisterCount ==
    [][ioop' = "deregister_resources" =>
        LET rs == ioarg'.resources
            gone(k) == IF k = "pio" THEN Removed(pio_bus, pio_bus')
                       ELSE Removed(mmio_bus, mmio_bus')
        IN  /\ ioret'.err = "Ok"
            /\ Kept(pio_bus', pio_bus)
            /\ Kept(mmio_bus', mmio_bus)
            /\ ioret'.count = Cardinality(gone("pio")) + Cardinality(gone("mmio"))
            /\ \A k \in Kinds :
                   /\ Cardinality(gone(k)) <= Cardinality(RangesAt(rs, k))
                   /\ \A r \in gone(k) :
                          \E j \in RangesAt(rs, k) : rs[j].base \in Cells(r)
    ]_vars

\* C28 witness: deregister_resources of a set that names the same MMIO range
\* twice and an interrupt number has removed the range and returned 1.
C28_Witness ==
    /\ ioop = "deregister_resources"
    /\ ioarg.resources = <<MmioAddressRange(0, 2), MmioAddressRange(0, 2)>>
    /\ ioret.count = 1
    /\ mmio_bus = EmptyBus

\* A range resource whose range cannot be built: its size is 0 or its last
\* address lies beyond the address space of its bus.
Malformed(res) ==
    /\ res.tag \in Kinds
    /\ res.size = 0 \/ res.base + res.size - 1 > MaxAddr(res.tag)

\* C29: a call that registers a resource set never aborts the program, and
\* when a range resource of a kind it registers is malformed it returns an
\* error value to the caller.
C29_MalformedIsError ==
    [][ioop' \in RegisterCalls =>
        LET rs == ioarg'.resources
        IN  /\ ioret'.err # "panic"
            /\ (\E j \in 1..Len(rs) :
                    rs[j].tag \in KindsOf(ioop') /\ Malformed(rs[j]))
                   => ioret'.err \in {"InvalidRange", "DeviceOverlap"}
    ]_vars

\* C29 failing case: register_pio_resources of a PIO range of size 0 has
\* panicked.
C29_Witness ==
    /\ ioop = "register_pio_resources"
    /\ ioarg.resources = <<PioAddressRange(0, 0)>>
    /\ ioret.err = "panic"

\* C30: BusRange::new(base, size) fails, with InvalidRange, iff size = 0 or
\* base + size - 1 lies beyond the largest address of the bus; otherwise it
\* returns the range with that base and size, whose last address is
\* base + size - 1.
C30_RangeNew ==
    op = "BusRange::new" =>
        LET base == arg.range.base
            size == arg.range.size
        IN  /\ ~ret.ok <=> (size = 0 \/ base + size - 1 > MaxAddr(kind))
            /\ ~ret.ok => ret = Err("InvalidRange")
            /\ ret.ok =>
                   /\ ret.range.base = base
                   /\ ret.range.size = size
                   /\ last(kind, ret.range) = base + size - 1

\* C30 witness: a range of more than one address that ends exactly at the
\* largest address of the bus was built.
C30_Witness ==
    /\ op = "BusRange::new" /\ ret.ok
    /\ arg.range.size > 1
    /\ arg.range.base + arg.range.size - 1 = MaxAddr(kind)
    /\ last(kind, ret.range) = MaxAddr(kind)

\* C31: no address operation yields a wrapped value: checked_add(a, off) is
\* none exactly when a + off exceeds the largest address of the width and
\* a + off otherwise, and `address + offset` and `address - address` report
\* an overflow or underflow and never return the result modulo 2^width.
C31_NoWrap ==
    [][/\ op' = "checked_add" =>
            /\ ~ret'.ok <=> arg'.addr + arg'.len > MaxAddr(kind)
            /\ ret'.ok => ret'.val = arg'.addr + arg'.len
       /\ op' = "add" =>
            IF arg'.addr + arg'.len > MaxAddr(kind)
            THEN ~ret'.ok
            ELSE ret'.ok /\ ret'.val = arg'.addr + arg'.len
       /\ op' = "sub" =>
            IF arg'.addr < arg'.len
            THEN ~ret'.ok
            ELSE ret'.ok /\ ret'.val = arg'.addr - arg'.len]_vars

\* `address + offset` passed the largest address and returned the sum modulo
\* 2^width; checked_add of the same operands is none.
C31_Witness ==
    /\ op = "add"
    /\ arg.addr + arg.len > MaxAddr(kind)
    /\ ret.ok
    /\ ret.val = arg.addr + arg.len - (MaxAddr(kind) + 1)
    /\ ~checked_add(kind, arg.addr, arg.len).some

\* C32: register calls that two threads issue at the same time on one bus
\* take effect one after the other: of calls with overlapping ranges at most
\* one succeeds, a call that fails returned DeviceOverlap because its range
\* overlaps a stored one, and the bus never holds two overlapping ranges.
C32_Serialised ==
    /\ \A r1, r2 \in keys(bus) : r1 # r2 => ~overlaps(kind, r1, r2)
    /\ \A i, j \in 1..Len(issued) :
           (i < j /\ issued[i].ok /\ issued[j].ok)
               => ~overlaps(kind, issued[i].range, issued[j].range)
    /\ \A i \in 1..Len(issued) :
           /\ issued[i].ok =>
                  /\ issued[i].range.base \in DOMAIN bus
                  /\ bus[issued[i].range.base] =
                         [size |-> issued[i].range.size, dev |-> issued[i].dev]
           /\ ~issued[i].ok =>
                  \E r \in keys(bus) : overlaps(kind, issued[i].range, r)
    /\ Cardinality({t \in Threads : pc[t] \in {"scan", "insert"}}) <= 1

\* Two threads had overlapping register calls in flight together: one has
\* returned Ok and the other, issued before the first returned, DeviceOverlap.
C32_Witness ==
    \E i, j \in 1..Len(issued) :
        /\ i < j
        /\ issued[i].thread # issued[j].thread
        /\ issued[j].raced
        /\ issued[i].ok /\ ~issued[j].ok
        /\ issued[i].range # issued[j].range
        /\ overlaps(kind, issued[i].range, issued[j].range)

\* The calls that handed a routing to the backend, and the routing the
\* backend holds: the one of the last call whose commit it accepted.
Handed == {i \in 1..Len(issued) : issued[i].handed.set}
Accepted == {i \in Handed : issued[i].ret = "Ok"}
BackendSet == IF Accepted = {} THEN NoRouting ELSE issued[Max(Accepted)].handed

\* The part of C33 that does not depend on the backend's answer: one thread
\* at a time is between its table mutation and its commit, every commit
\* hands over the table as the same call's mutation left it, and while no
\* call holds the lock the routing handed over last is the table.
InOrder ==
    /\ [](Cardinality({t \in Threads : pc[t] \in {"mutate", "commit"}}) <= 1)
    /\ [][\A t \in Threads :
            (pc[t] = "commit" /\ pc'[t] = "idle") =>
                /\ routes = local[t].table
                /\ routes' = routes
                /\ Content(committed') = Content(set_routing(local[t].table))]_vars
    /\ []((guard = 0 /\ Handed # {}) =>
             Content(committed) = Content(set_routing(routes)))

C34_MutexAdapter ==
    /\ [](/\ \A t \in Threads : pc[t] \in {"inner", "return"} <=> guard = t
          /\ Cardinality({t \in Threads : pc[t] \in {"inner", "return"}}) <= 1
          /\ \A i \in 1..Len(issued) : issued[i].inner = <<issued[i].call>>
          /\ Len(calls) = Len(issued)
                 + Cardinality({t \in Threads : pc[t] = "return"}))
    /\ \A t \in Threads : (pc[t] # "idle") ~> (pc[t] = "idle")

\* Two dispatches of different threads were in flight together and both
\* have returned: the inner device ran one operation for each, one after
\* the other, and the lock is free.
C34_Witness ==
    /\ Len(issued) = 2
    /\ issued[1].thread # issued[2].thread
    /\ issued[2].raced
    /\ issued[1].call # issued[2].call
    /\ calls = <<issued[1].call, issued[2].call>>
    /\ guard = 0

\* The GSIs an irqfd is registered for, and the GSIs with an MSI route.
RegisteredGsis ==
    {gbase + i : i \in notifiers} \cup {peer.base + i : i \in peer.notifiers}
MsiRouted(g) ==
    \E k \in DOMAIN routes :
        routes[k].type_ = KVM_IRQ_ROUTING_MSI /\ routes[k].gsi = g

\* C35: in every state reached by enable, update and disable calls on any
\* MSI groups, failed backend calls included, every notifier registered
\* with the hypervisor for a GSI has an MSI route for that GSI in the
\* routing table, and a group whose enable succeeded has all its routes
\* installed for a later trigger.
C35_RoutedNotifiers ==
    /\ \A g \in RegisteredGsis : MsiRouted(g)
    /\ gphase = "enabled" => \A i \in 0..(gcount - 1) : MsiRouted(gbase + i)

\* The first group is enabled and has done nothing since; a disable of the
\* second group, which was never enabled, returned Ok and took the route of
\* the GSI the two groups share: the notifier of the first group is
\* registered for a GSI without a route.
C35_Witness ==
    /\ gphase = "enabled"
    /\ peer.op = "disable" /\ peer.ret = "Ok"
    /\ peer.notifiers = {}
    /\ \E i \in notifiers : gbase + i = peer.base /\ ~MsiRouted(gbase + i)

\* The acks issued after call i that clear bit b.
AckedSince(i, b) ==
    \E j \in (i + 1)..Len(issued) :
        issued[j].op = "ack" /\ b \in Bits(issued[j].flags)

\* C36: in a legacy trigger(0, flags) the status word is updated before the
\* notifier is written: every write of the notifier belongs to a trigger
\* whose update is done, and from that update on, in every interleaving,
\* each bit of flags is set in the status word unless an ack cleared it
\* after the update.
C36_StatusBeforeNotifier ==
    /\ irqfd[0] + Cardinality({t \in Threads : pc[t] = "write"})
           = Cardinality(Triggers(issued))
    /\ \A i \in Triggers(issued) : \A b \in Bits(issued[i].flags) :
           b \in Bits(status) \/ AckedSince(i, b)

\* A trigger wrote the notifier while an ack that came after its update had
\* cleared one of its two bits: the other bit is still set.
C36_Witness ==
    /\ irqfd[0] >= 1
    /\ \A t \in Threads : pc[t] = "idle"
    /\ \E i \in Triggers(issued) :
           /\ Cardinality(Bits(issued[i].flags)) = 2
           /\ \E b, c \in Bits(issued[i].flags) :
                  /\ AckedSince(i, b) /\ b \notin Bits(status)
                  /\ ~AckedSince(i, c) /\ c \in Bits(status)

\* The table is the routing the backend holds: nothing was handed over yet
\* and the table is empty, or the last operation committed and the backend
\* accepted.
Agreed ==
    \/ rop = "new" /\ routes = EmptyRoutes
    \/ rret = "Ok" /\ ncalls = 1 /\ Content(committed) = Content(set_routing(routes))

\* C37: when the backend rejects the commit inside initialize, add, remove
\* or modify, the operation returns the backend error and the table is left
\* equal to the routing the backend accepted last: the mutation of the
\* failed call is not kept.
C37_Rollback ==
    [][(Agreed /\ rret' = "backend") => routes' = routes]_vars

\* The backend rejected the commit of an add on a table it agreed with: the
\* added entries are in the table and the backend does not hold them.
C37_Witness ==
    /\ rop = "add" /\ rret = "backend"
    /\ Len(rarg) >= 1
    /\ \A i \in 1..Len(rarg) : hash_key(rarg[i]) \in DOMAIN routes
    /\ Content(committed) = Content(set_routing(routes))

\* C38: on an MSI group, a successful enable, then any number of successful
\* updates, then a successful disable leave the routing table with exactly
\* the entries it had before the enable and none of the notifiers of the
\* group registered, whatever addresses and data the configurations carry.
\* The table before a successful enable is the initialized table; updates
\* that fail in between change nothing of this.
Initialized(m) ==
    /\ {m[k] : k \in DOMAIN m} = DefaultRoutes
    /\ \A k \in DOMAIN m : hash_key(m[k]) = k

C38_EnableDisable ==
    [][/\ (gkind = "msi" /\ gop' = "enable" /\ gret' = "Ok") =>
              Initialized(routes)
       /\ (gkind = "msi" /\ gphase = "enabled" /\ gop' = "disable" /\ gret' = "Ok") =>
              /\ Initialized(routes')
              /\ notifiers' = {}]_vars

\* An MSI group of two sources was enabled with one address and data, had
\* source 0 updated to another, and was disabled with success: the table
\* is the initialized one and no notifier is registered.
C38_Witness ==
    /\ gkind = "msi" /\ gcount = 2
    /\ gop = "disable" /\ gret = "Ok" /\ gphase = "disabled"
    /\ msi_configs[0] = MsiCfg(1, 66, 2)
    /\ msi_configs[1] = DefaultMsi
    /\ Initialized(routes)
    /\ notifiers = {}

\* C39: in every state reached by create_group and destroy_group calls the
\* base -> group mapping of the manager has an entry for every group that
\* create_group returned and that was not passed to destroy_group; two live
\* groups of the same base are both tracked.
C39_TracksLive ==
    \A g \in live : \E b \in DOMAIN groups : groups[b] = g

\* Two groups of the same base are live and the mapping holds only the one
\* created last.
C39_Witness ==
    \E g1, g2 \in live :
        /\ g1 # g2
        /\ g1.count # u32(0) /\ g2.count # u32(0)
        /\ base_of(g1) = base_of(g2)
        /\ mgroup = g2
        /\ groups[base_of(g2)] = g2
        /\ \A b \in DOMAIN groups : groups[b] # g1

\* C40: deregister_resources removes a registered range only when the set
\* has a range resource of the same bus with the base and the size of that
\* range; a resource whose base lies inside a range registered with another
\* base or size removes nothing.
C40_ExactRange ==
    [][ioop' = "deregister_resources" =>
        LET rs == ioarg'.resources
            gone(k) == IF k = "pio" THEN Removed(pio_bus, pio_bus')
                       ELSE Removed(mmio_bus, mmio_bus')
        IN  \A k \in Kinds : \A r \in gone(k) :
                \E j \in RangesAt(rs, k) :
                    rs[j].base = r.base /\ rs[j].size = r.size
    ]_vars

\* deregister_resources of the MMIO resource (1, 1) alone has removed the
\* registered range (0, 2), the only one of the bus, and returned 1.
C40_Witness ==
    /\ ioop = "deregister_resources"
    /\ ioarg.resources = <<MmioAddressRange(1, 1)>>
    /\ ioret.count = 1
    /\ mmio_bus = EmptyBus

====
